---- MODULE Spec2Model ----
(***************************************************************************)
(* A model of the pet store scripts.                                       *)
(*                                                                         *)
(*   generate_data.py : the main program, initial_setup and the two        *)
(*                      real-time generator threads                        *)
(*   create_schema.py : the schema creator                                 *)
(*   row_count.py     : the row-count reporter                             *)
(*   create_catalog_inventory.py : the loader of catalog, inventory, items *)
(*                                                                         *)
(* Storage is modelled as the committed tables (db) and, per connection,   *)
(* the rows of the open transaction (tx).  A statement of a connection     *)
(* sees the committed rows and the rows of its own transaction.            *)
(***************************************************************************)
EXTENDS Integers, Sequences, FiniteSets, TLC

VARIABLES
    CONFIG,         \* the command line (generate_data.py:736-758)
    pc,             \* position of the main thread of generate_data
    exitCode,       \* exit status of the process, NoExit while it runs
    conn,           \* initial_setup's conn: "None", "open" or "closed"
    i,              \* loop index of the current initial_setup group
    pet_product_ids,\* initial_setup's pet_product_ids still to be used
    supplier_ids, employee_ids, customer_ids, product_ids, pet_ids,
    db,             \* committed tables
    tx,             \* rows of the open transaction of each connection
    nextId,         \* next identity value of each table
    setupFailed,    \* history: an except clause of initial_setup ran
    setupLog,       \* history: what initial_setup inserted and committed
    gpc,            \* position of each started generator thread
    gi,             \* loop index of each generator's batch
    list_lock,      \* holder of list_lock, or Free
    batchLog,       \* history: per generator and batch, its rows and fate
    ord,            \* locals of the generators' insert calls in progress
    access,         \* history: the accesses to the lists of ids so far
    args,           \* create_schema: the command line
    spc,            \* create_schema: position of main
    stmt,           \* create_schema: statements done in the current loop
    objects,        \* create_schema: the tables, sequences and indexes in storage
    rc,             \* create_schema: exit status of the run, NoExit while it runs
    runs,           \* create_schema history: the runs so far and what they met
    report,         \* row_count: storage as it answers, main's locals, its output
    loader          \* create_catalog_inventory: its storage, its connection, main's locals

vars == <<CONFIG, pc, exitCode, conn, i, pet_product_ids,
          supplier_ids, employee_ids, customer_ids, product_ids, pet_ids,
          db, tx, nextId, setupFailed, setupLog,
          gpc, gi, list_lock, batchLog, ord, access,
          args, spc, stmt, objects, rc, runs, report, loader>>

toolVars == <<report, loader>>
schemaVars == <<args, spc, stmt, objects, rc, runs>>
dataVars == <<CONFIG, pc, exitCode, conn, i, pet_product_ids,
              supplier_ids, employee_ids, customer_ids, product_ids, pet_ids,
              db, tx, nextId, setupFailed, setupLog,
              gpc, gi, list_lock, batchLog, ord, access>>

mainVars == <<CONFIG, pc, exitCode, conn, i, pet_product_ids, setupFailed, setupLog>>
listVars == <<supplier_ids, employee_ids, customer_ids, product_ids, pet_ids>>
genVars  == <<gpc, gi, list_lock, batchLog, ord>>

----------------------------------------------------------------------------
(* Bounds of the model *)

MaxSuppliers == 2   \* largest --initial-suppliers
MaxEmployees == 4   \* largest --initial-employees
MaxCustomers == 2   \* largest --initial-customers
MaxProducts == 2    \* largest --initial-products
MaxPets == 2        \* largest --initial-pets
MaxLogs == 1        \* largest --initial-care-logs and --initial-datatypes-demo
MaxBatch == 1       \* largest orders_per_interval and products_per_interval
MaxBatches == 2     \* batches the generators begin in all before the model stops them
MaxItems == 5       \* largest num_items drawn by insert_single_order: random.randint(1, 5)
MaxSchemaFaults == 2 \* statements of create_schema that storage fails for another reason
MaxSchemas == 2     \* row_count: most schemas the reporter finds
MaxTables == 2      \* row_count: most tables of a schema
MaxRowCount == 2    \* row_count: largest COUNT(*) of a table
MaxLoaderRows == 2  \* create_catalog_inventory: largest --catalog-rows, --inventory-rows, --items-rows

----------------------------------------------------------------------------
(* Values *)

None == 0           \* Python's None; identity values start at 1
NoExit == "running"
Free == "free"

Gens == {"product_generator", "order_generator"}
Conns == {"setup", "product_generator", "order_generator"}

\* representatives of product_types (only 'Pet' is told apart by the code)
product_types == {"Food", "Pet"}
\* representatives of employee_job_titles
employee_job_titles == {"Manager", "Vet Technician", "Groomer"}
\* representatives of random.uniform(5, 500) and of random.randint(1, 4)
Prices == {5, 8}
Quantities == {1, 4}

EmptyTables ==
    [suppliers |-> {}, employees |-> {}, customers |-> {}, products |-> {},
     pets |-> {}, orders |-> {}, order_items |-> {}, pet_care_logs |-> {},
     oracle_datatypes_demo |-> {}]

TableNames == DOMAIN EmptyTables

\* rows a database may hold before the program starts (an earlier run)
PreloadedTables ==
    [EmptyTables EXCEPT
        !.suppliers = {1},
        !.customers = {1},
        !.products = {[product_id |-> 1, product_type |-> "Pet", price |-> 5,
                       supplier_id |-> 1]}]

\* what a statement of connection c sees
Visible(c) == [t \in TableNames |-> db[t] \cup tx[c][t]]

\* conn.commit() and conn.rollback() of connection c
Committed(c) == [t \in TableNames |-> db[t] \cup tx[c][t]]

RolledBack(c) == [tx EXCEPT ![c] = EmptyTables]

Range(s) == {s[k] : k \in DOMAIN s}

----------------------------------------------------------------------------
(* Rows and their keys *)

RowId(t, row) ==
    CASE t = "employees" -> row.employee_id
      [] t = "products" -> row.product_id
      [] t = "pets" -> row.pet_id
      [] t = "orders" -> row.order_id
      [] t = "order_items" -> row.order_item_id
      [] t = "pet_care_logs" -> row.log_id
      [] OTHER -> row

Ids(T, t) == {RowId(t, row) : row \in T[t]}

\* cur.execute of an INSERT on connection c: the row joins c's transaction
Inserted(c, t, row) == [tx EXCEPT ![c][t] = @ \cup {row}]

Bump(t) == [nextId EXCEPT ![t] = @ + 1]

\* thread by reads or writes list; locked: inside a with list_lock block;
\* alone: no generator thread has been started yet
Access(by, list, locked) ==
    [by |-> by, list |-> list, locked |-> locked,
     alone |-> \A g \in Gens : gpc[g] = "not_started"]

Accessed(by, lists, locked) == access \cup {Access(by, l, locked) : l \in lists}

----------------------------------------------------------------------------
(* The command line: parse_arguments and the CONFIG built from it *)

\* the set of CONFIG records with each count and each option drawn from a set
Configs(password, suppliers, employees, customers, products, pets, care_logs, demo, batch, options) ==
    [password : password,
     initial_suppliers : suppliers, initial_employees : employees,
     initial_customers : customers, initial_products : products,
     initial_pets : pets, initial_care_logs : care_logs,
     initial_datatypes_demo : demo,
     orders_per_interval : batch, products_per_interval : batch,
     no_truncate : options, no_initial_data : options,
     no_realtime : options, setup_only : options]

InitWith(configs) ==
    /\ CONFIG \in configs
    /\ pc = "parse_arguments"
    /\ exitCode = NoExit
    /\ conn = "None"
    /\ i = 0
    /\ pet_product_ids = {}
    /\ supplier_ids = <<>>
    /\ employee_ids = <<>>
    /\ customer_ids = <<>>
    /\ product_ids = <<>>
    /\ pet_ids = <<>>
    /\ db \in {EmptyTables, PreloadedTables}
    /\ tx = [c \in Conns |-> EmptyTables]
    /\ nextId = [t \in TableNames |-> IF db[t] = {} THEN 1 ELSE 2]
    /\ setupFailed = FALSE
    /\ setupLog = [rows |-> {}, committed |-> {}, group |-> "none", fresh |-> FALSE]
    /\ gpc = [g \in Gens |-> "not_started"]
    /\ gi = [g \in Gens |-> 0]
    /\ list_lock = Free
    /\ batchLog = [g \in Gens |-> <<>>]
    /\ ord = [new_product_id |-> None, order_id |-> None, order_products |-> {},
              order_total |-> 0, total_in_columns |-> FALSE]
    /\ access = {}

\* parse_arguments: parser.error prints the usage and exits with status 2
\* (argparse); otherwise the main program goes on to initial_setup
ParserErrorStatus == 2
parse_arguments ==
    /\ pc = "parse_arguments"
    /\ IF ~CONFIG.password
         THEN /\ pc' = "exited"
              /\ exitCode' = ParserErrorStatus
         ELSE /\ pc' = "initial_setup"
              /\ UNCHANGED exitCode
    /\ UNCHANGED <<CONFIG, conn, i, pet_product_ids, listVars, db, tx, nextId,
                   setupFailed, setupLog, genVars>>
    /\ UNCHANGED access
    /\ UNCHANGED <<schemaVars, toolVars>>

----------------------------------------------------------------------------
(* initial_setup *)

\* an exception that nothing catches ends the process with a traceback
UnhandledExceptionStatus == 1

\* the except clauses and the finally clause of initial_setup: roll back when a
\* connection was opened, print, close, return normally.  When conn.rollback()
\* raises in its turn (the connection is lost) the exception leaves
\* initial_setup and the main program; storage aborts the transaction.
SetupExcept ==
    /\ tx' = IF conn = "open" THEN RolledBack("setup") ELSE tx
    /\ conn' = IF conn = "open" THEN "closed" ELSE conn
    /\ setupFailed' = TRUE
    /\ \E raised \in (IF conn = "open" THEN BOOLEAN ELSE {FALSE}) :
          /\ pc' = IF raised THEN "exited" ELSE "setup_returned"
          /\ exitCode' = IF raised THEN UnhandledExceptionStatus ELSE exitCode

\* get_db_connection() of initial_setup; it may raise
SetupConnect ==
    /\ pc = "initial_setup"
    /\ \/ /\ conn' = "open"
          /\ pc' = "truncate"
          /\ UNCHANGED <<tx, setupFailed, exitCode>>
       \/ SetupExcept
    /\ UNCHANGED <<CONFIG, i, pet_product_ids, listVars, db, nextId,
                   setupLog, genVars>>
    /\ UNCHANGED access
    /\ UNCHANGED <<schemaVars, toolVars>>

\* truncate_and_reset_sequences (unless --no-truncate), then the
\* --no-initial-data return.  A TRUNCATE that raises ORA-00942 or ORA-02266 is
\* passed over and leaves its table as it was.
SetupTruncate ==
    /\ pc = "truncate"
    /\ \E kept \in {{}, {"products", "customers", "suppliers"}} :
          /\ CONFIG.no_truncate => kept = {}
          /\ db' = IF CONFIG.no_truncate THEN db
                   ELSE [t \in TableNames |-> IF t \in kept THEN db[t] ELSE {}]
    /\ IF CONFIG.no_initial_data
         THEN /\ pc' = "setup_returned"
              /\ conn' = "closed"
              /\ UNCHANGED setupLog
         ELSE /\ pc' = "suppliers"
              /\ UNCHANGED conn
              /\ setupLog' = [setupLog EXCEPT !.group = "suppliers",
                                !.fresh = \A t \in TableNames : db'[t] = {}]
    /\ i' = 0
    /\ UNCHANGED <<CONFIG, exitCode, pet_product_ids, listVars, tx, nextId,
                   setupFailed, genVars>>
    /\ UNCHANGED access
    /\ UNCHANGED <<schemaVars, toolVars>>

\* a statement or a commit of initial_setup raises oracledb.Error
SetupPcs == {"truncate", "suppliers", "employees", "customers", "products",
             "pets_select", "pets", "care_logs", "demo"}

SetupError ==
    /\ pc \in SetupPcs
    /\ SetupExcept
    /\ UNCHANGED <<CONFIG, i, pet_product_ids, listVars, db, nextId,
                   setupLog, genVars>>
    /\ UNCHANGED access
    /\ UNCHANGED <<schemaVars, toolVars>>

Logged(t, id) ==
    [setupLog EXCEPT !.rows = @ \cup {[group |-> setupLog.group, table |-> t, id |-> id]}]

\* a setup that commits once, at its end: the groups before the last stay in
\* the open transaction
SetupCommitAtEnd(next) ==
    /\ db' = (IF next = "setup_returned" THEN Committed("setup") ELSE db)
    /\ tx' = (IF next = "setup_returned" THEN RolledBack("setup") ELSE tx)
    /\ setupLog' = [setupLog EXCEPT !.committed = @ \cup {setupLog.group},
                                    !.group = next]
    /\ pc' = next
    /\ i' = 0

\* conn.commit() after a group, and the move to the next group
SetupCommit(next) ==
    /\ db' = Committed("setup")
    /\ tx' = RolledBack("setup")
    /\ setupLog' = [setupLog EXCEPT !.committed = @ \cup {setupLog.group},
                                    !.group = next]
    /\ pc' = next
    /\ i' = 0

\* insert_single_supplier in the suppliers loop
InsertSupplier ==
    /\ pc = "suppliers"
    /\ i < CONFIG.initial_suppliers
    /\ tx' = Inserted("setup", "suppliers", nextId.suppliers)
    /\ supplier_ids' = Append(supplier_ids, nextId.suppliers)
    /\ nextId' = Bump("suppliers")
    /\ setupLog' = Logged("suppliers", nextId.suppliers)
    /\ i' = i + 1
    /\ UNCHANGED <<CONFIG, pc, exitCode, conn, pet_product_ids, employee_ids,
                   customer_ids, product_ids, pet_ids, db, setupFailed, genVars>>
    /\ access' = Accessed("initial_setup", {"supplier_ids"}, FALSE)
    /\ UNCHANGED <<schemaVars, toolVars>>

CommitSuppliers ==
    /\ pc = "suppliers"
    /\ i >= CONFIG.initial_suppliers
    /\ SetupCommit("employees")
    /\ UNCHANGED <<CONFIG, exitCode, conn, pet_product_ids, listVars, nextId,
                   setupFailed, genVars>>
    /\ UNCHANGED access
    /\ UNCHANGED <<schemaVars, toolVars>>

\* insert_single_employee: the CEO, the two specialists, then range(3, n)
EmployeeRow(id, manager_id, job) ==
    [employee_id |-> id, job_title |-> job, manager_id |-> manager_id]

\* an employee row written without its manager
ManagerLeftOut(index) == None

ManagerOf(index) == IF index = 0 THEN None ELSE employee_ids[1]

JobsOf(index) ==
    CASE index = 0 -> {"CEO"}
      [] index = 1 -> {"Vet Technician"}
      [] index = 2 -> {"Groomer"}
      [] OTHER -> employee_job_titles

FixedEmployees == 3
InsertEmployee ==
    /\ pc = "employees"
    /\ i < FixedEmployees \/ i < CONFIG.initial_employees
    /\ \E job \in JobsOf(i) :
          tx' = Inserted("setup", "employees",
                         EmployeeRow(nextId.employees, ManagerOf(i), job))
    /\ employee_ids' = Append(employee_ids, nextId.employees)
    /\ nextId' = Bump("employees")
    /\ setupLog' = Logged("employees", nextId.employees)
    /\ i' = i + 1
    /\ UNCHANGED <<CONFIG, pc, exitCode, conn, pet_product_ids, supplier_ids,
                   customer_ids, product_ids, pet_ids, db, setupFailed, genVars>>
    /\ access' = Accessed("initial_setup", {"employee_ids"}, FALSE)
    /\ UNCHANGED <<schemaVars, toolVars>>

CommitEmployees ==
    /\ pc = "employees"
    /\ ~(i < FixedEmployees \/ i < CONFIG.initial_employees)
    /\ SetupCommit("customers")
    /\ UNCHANGED <<CONFIG, exitCode, conn, pet_product_ids, listVars, nextId,
                   setupFailed, genVars>>
    /\ UNCHANGED access
    /\ UNCHANGED <<schemaVars, toolVars>>

InsertCustomer ==
    /\ pc = "customers"
    /\ i < CONFIG.initial_customers
    /\ tx' = Inserted("setup", "customers", nextId.customers)
    /\ customer_ids' = Append(customer_ids, nextId.customers)
    /\ nextId' = Bump("customers")
    /\ setupLog' = Logged("customers", nextId.customers)
    /\ i' = i + 1
    /\ UNCHANGED <<CONFIG, pc, exitCode, conn, pet_product_ids, supplier_ids,
                   employee_ids, product_ids, pet_ids, db, setupFailed, genVars>>
    /\ access' = Accessed("initial_setup", {"customer_ids"}, FALSE)
    /\ UNCHANGED <<schemaVars, toolVars>>

CommitCustomers ==
    /\ pc = "customers"
    /\ i >= CONFIG.initial_customers
    /\ SetupCommit("products")
    /\ UNCHANGED <<CONFIG, exitCode, conn, pet_product_ids, listVars, nextId,
                   setupFailed, genVars>>
    /\ UNCHANGED access
    /\ UNCHANGED <<schemaVars, toolVars>>

\* insert_single_product(cur, conn, product_type): None without an INSERT when
\* supplier_ids is empty, else one row and its new id.  The result is the pair
\* of the returned value and the rows added to the transaction.
ProductRow(id, type, price, supp) ==
    [product_id |-> id, product_type |-> type, price |-> price, supplier_id |-> supp]

insert_single_product(types) ==
    IF supplier_ids = <<>>
      THEN {[id |-> None, rows |-> {}]}
      ELSE {[id |-> nextId.products,
             rows |-> {ProductRow(nextId.products, type, price, supp)}] :
               type \in types, price \in Prices, supp \in Range(supplier_ids)}

\* product_ids.append(insert_single_product(cur, conn)) in the products loop
InsertProduct ==
    /\ pc = "products"
    /\ i < CONFIG.initial_products
    /\ \E r \in insert_single_product(product_types) :
          /\ tx' = [tx EXCEPT !["setup"].products = @ \cup r.rows]
          /\ product_ids' = Append(product_ids, r.id)
          /\ nextId' = IF r.id = None THEN nextId ELSE Bump("products")
          /\ setupLog' = IF r.id = None THEN setupLog ELSE Logged("products", r.id)
    /\ i' = i + 1
    /\ UNCHANGED <<CONFIG, pc, exitCode, conn, pet_product_ids, supplier_ids,
                   employee_ids, customer_ids, pet_ids, db, setupFailed, genVars>>
    /\ access' = Accessed("initial_setup", {"product_ids"}, FALSE)
                 \cup {Access("initial_setup", "supplier_ids", TRUE)}
    /\ UNCHANGED <<schemaVars, toolVars>>

CommitProducts ==
    /\ pc = "products"
    /\ i >= CONFIG.initial_products
    /\ SetupCommit("pets_select")
    /\ UNCHANGED <<CONFIG, exitCode, conn, pet_product_ids, listVars, nextId,
                   setupFailed, genVars>>
    /\ UNCHANGED access
    /\ UNCHANGED <<schemaVars, toolVars>>

\* SELECT product_id FROM products WHERE product_type = 'Pet' ORDER BY
\* dbms_random.value FETCH FIRST :1 ROWS ONLY
Min(a, b) == IF a < b THEN a ELSE b

PetProducts(T) == {p.product_id : p \in {q \in T.products : q.product_type = "Pet"}}

FetchFirst(S, n) == {R \in SUBSET S : Cardinality(R) = Min(n, Cardinality(S))}

\* the SELECT of the pets group and the fallback product when it returns no row
SelectPetProducts ==
    /\ pc = "pets_select"
    /\ \E R \in FetchFirst(PetProducts(Visible("setup")), CONFIG.initial_pets) :
          IF R # {}
            THEN /\ pet_product_ids' = R
                 /\ UNCHANGED <<tx, nextId, setupLog>>
            ELSE \E r \in insert_single_product({"Pet"}) :
                   /\ pet_product_ids' = {r.id}
                   /\ tx' = [tx EXCEPT !["setup"].products = @ \cup r.rows]
                   /\ nextId' = IF r.id = None THEN nextId ELSE Bump("products")
                   /\ setupLog' = IF r.id = None THEN setupLog
                                  ELSE Logged("products", r.id)
    /\ pc' = "pets"
    /\ UNCHANGED <<CONFIG, exitCode, conn, i, listVars, db, setupFailed, genVars>>
    /\ access' = IF tx' # tx \/ pet_product_ids' = {None}
                 THEN Accessed("initial_setup", {"supplier_ids"}, TRUE)
                 ELSE access
    /\ UNCHANGED <<schemaVars, toolVars>>

\* insert_single_pet for the next prod_id of pet_product_ids
InsertPet ==
    /\ pc = "pets"
    /\ \E prod_id \in pet_product_ids :
          /\ tx' = Inserted("setup", "pets",
                            [pet_id |-> nextId.pets, product_id |-> prod_id])
          /\ pet_product_ids' = pet_product_ids \ {prod_id}
    /\ pet_ids' = Append(pet_ids, nextId.pets)
    /\ nextId' = Bump("pets")
    /\ setupLog' = Logged("pets", nextId.pets)
    /\ UNCHANGED <<CONFIG, pc, exitCode, conn, i, supplier_ids, employee_ids,
                   customer_ids, product_ids, db, setupFailed, genVars>>
    /\ access' = Accessed("initial_setup", {"pet_ids"}, FALSE)
    /\ UNCHANGED <<schemaVars, toolVars>>

CommitPets ==
    /\ pc = "pets"
    /\ pet_product_ids = {}
    /\ SetupCommit("care_logs")
    /\ UNCHANGED <<CONFIG, exitCode, conn, pet_product_ids, listVars, nextId,
                   setupFailed, genVars>>
    /\ UNCHANGED access
    /\ UNCHANGED <<schemaVars, toolVars>>

\* SELECT employee_id FROM employees WHERE job_title IN ('Vet Technician',
\* 'Groomer') AND employee_id IN (employee_ids)
CareEmployees(T) ==
    {e.employee_id : e \in {f \in T.employees :
        /\ f.job_title \in {"Vet Technician", "Groomer"}
        /\ f.employee_id \in Range(employee_ids)}}

CareLogsWanted ==
    /\ pet_ids # <<>>
    /\ employee_ids # <<>>
    /\ CareEmployees(Visible("setup")) # {}
    /\ i < CONFIG.initial_care_logs

\* one INSERT INTO pet_care_logs of the care log loop
InsertCareLog ==
    /\ pc = "care_logs"
    /\ CareLogsWanted
    /\ \E pet_id \in Range(pet_ids), employee_id \in CareEmployees(Visible("setup")) :
          tx' = Inserted("setup", "pet_care_logs",
                         [log_id |-> nextId.pet_care_logs, pet_id |-> pet_id,
                          employee_id |-> employee_id])
    /\ nextId' = Bump("pet_care_logs")
    /\ setupLog' = Logged("pet_care_logs", nextId.pet_care_logs)
    /\ i' = i + 1
    /\ UNCHANGED <<CONFIG, pc, exitCode, conn, pet_product_ids, listVars, db,
                   setupFailed, genVars>>
    /\ access' = Accessed("initial_setup", {"pet_ids", "employee_ids"}, FALSE)
    /\ UNCHANGED <<schemaVars, toolVars>>

\* the care logs are done or skipped: on to the demo rows, no commit in between
CareLogsDone ==
    /\ pc = "care_logs"
    /\ ~CareLogsWanted
    /\ pc' = "demo"
    /\ i' = 0
    /\ UNCHANGED <<CONFIG, exitCode, conn, pet_product_ids, listVars, db, tx,
                   nextId, setupFailed, setupLog, genVars>>
    /\ access' = Accessed("initial_setup", {"pet_ids", "employee_ids"}, FALSE)
    /\ UNCHANGED <<schemaVars, toolVars>>

\* insert_single_datatypes_demo_record: True after its INSERT, False when it
\* raised (the exception is caught inside)
InsertDemoRecord ==
    /\ pc = "demo"
    /\ i < CONFIG.initial_datatypes_demo
    /\ \/ /\ tx' = Inserted("setup", "oracle_datatypes_demo",
                            nextId.oracle_datatypes_demo)
          /\ nextId' = Bump("oracle_datatypes_demo")
          /\ setupLog' = Logged("oracle_datatypes_demo", nextId.oracle_datatypes_demo)
       \/ UNCHANGED <<tx, nextId, setupLog>>
    /\ i' = i + 1
    /\ UNCHANGED <<CONFIG, pc, exitCode, conn, pet_product_ids, listVars, db,
                   setupFailed, genVars>>
    /\ UNCHANGED access
    /\ UNCHANGED <<schemaVars, toolVars>>

\* the final commit, "Initial data setup complete.", and the finally clause
FinalCommit ==
    /\ pc = "demo"
    /\ i >= CONFIG.initial_datatypes_demo
    /\ SetupCommit("setup_returned")
    /\ conn' = "closed"
    /\ UNCHANGED <<CONFIG, exitCode, pet_product_ids, listVars, nextId,
                   setupFailed, genVars>>
    /\ UNCHANGED access
    /\ UNCHANGED <<schemaVars, toolVars>>

initial_setup ==
    \/ SetupConnect
    \/ SetupTruncate
    \/ SetupError
    \/ InsertSupplier
    \/ CommitSuppliers
    \/ InsertEmployee
    \/ CommitEmployees
    \/ InsertCustomer
    \/ CommitCustomers
    \/ InsertProduct
    \/ CommitProducts
    \/ SelectPetProducts
    \/ InsertPet
    \/ CommitPets
    \/ InsertCareLog
    \/ CareLogsDone
    \/ InsertDemoRecord
    \/ FinalCommit

----------------------------------------------------------------------------
(* The main program after initial_setup (generate_data.py:776-801) *)

\* exit(0) for --setup-only and for --no-realtime
ExitAfterSetup ==
    /\ pc = "setup_returned"
    /\ CONFIG.setup_only \/ CONFIG.no_realtime
    /\ pc' = "exited"
    /\ exitCode' = 0
    /\ UNCHANGED <<CONFIG, conn, i, pet_product_ids, listVars, db, tx, nextId,
                   setupFailed, setupLog, genVars>>
    /\ UNCHANGED access
    /\ UNCHANGED <<schemaVars, toolVars>>

\* a start of the threads that does not look at setup_only and no_realtime
StartProductThreadAnyway ==
    /\ pc = "setup_returned"
    /\ pc' = "start_order_thread"
    /\ gpc' = [gpc EXCEPT !["product_generator"] = "connect"]
    /\ UNCHANGED <<CONFIG, exitCode, conn, i, pet_product_ids, listVars, db, tx,
                   nextId, setupFailed, setupLog, gi, list_lock, batchLog, ord>>
    /\ UNCHANGED access
    /\ UNCHANGED <<schemaVars, toolVars>>

\* product_thread.start(), then order_thread.start()
StartProductThread ==
    /\ pc = "setup_returned"
    /\ ~CONFIG.setup_only /\ ~CONFIG.no_realtime
    /\ pc' = "start_order_thread"
    /\ gpc' = [gpc EXCEPT !["product_generator"] = "connect"]
    /\ UNCHANGED <<CONFIG, exitCode, conn, i, pet_product_ids, listVars, db, tx,
                   nextId, setupFailed, setupLog, gi, list_lock, batchLog, ord>>
    /\ UNCHANGED access
    /\ UNCHANGED <<schemaVars, toolVars>>

StartOrderThread ==
    /\ pc = "start_order_thread"
    /\ pc' = "running"
    /\ gpc' = [gpc EXCEPT !["order_generator"] = "connect"]
    /\ UNCHANGED <<CONFIG, exitCode, conn, i, pet_product_ids, listVars, db, tx,
                   nextId, setupFailed, setupLog, gi, list_lock, batchLog, ord>>
    /\ UNCHANGED access
    /\ UNCHANGED <<schemaVars, toolVars>>

\* KeyboardInterrupt in the sleep loop: the script ends, the daemon threads die
\* with the process and storage aborts their open transactions
KeyboardInterrupt ==
    /\ pc = "running"
    /\ pc' = "exited"
    /\ exitCode' = 0
    /\ gpc' = [g \in Gens |-> "killed"]
    /\ tx' = [c \in Conns |-> EmptyTables]
    /\ list_lock' = Free
    /\ UNCHANGED <<CONFIG, conn, i, pet_product_ids, listVars, db, nextId,
                   setupFailed, setupLog, gi, batchLog, ord>>
    /\ UNCHANGED access
    /\ UNCHANGED <<schemaVars, toolVars>>

main ==
    \/ parse_arguments
    \/ ExitAfterSetup
    \/ StartProductThread
    \/ StartOrderThread
    \/ KeyboardInterrupt

----------------------------------------------------------------------------
(* The real-time generator threads *)

setupVars == <<conn, i, pet_product_ids, setupFailed, setupLog>>

BatchSize(g) ==
    IF g = "product_generator" THEN CONFIG.products_per_interval
    ELSE CONFIG.orders_per_interval

CurrentBatch(g) == Len(batchLog[g])

BatchesBegun == Len(batchLog["product_generator"]) + Len(batchLog["order_generator"])

BatchLogged(g, keys) ==
    [batchLog EXCEPT ![g][CurrentBatch(g)].rows = @ \cup keys]

\* conn = get_db_connection() at the top of a generator; when it raises, the
\* exception leaves the thread's function and the thread ends
GenConnect(g) ==
    /\ gpc[g] = "connect"
    /\ \/ gpc' = [gpc EXCEPT ![g] = "loop"]
       \/ gpc' = [gpc EXCEPT ![g] = "dead"]
    /\ UNCHANGED <<CONFIG, pc, exitCode, setupVars, listVars, db, tx, nextId,
                   gi, list_lock, batchLog, ord>>
    /\ UNCHANGED access
    /\ UNCHANGED <<schemaVars, toolVars>>

\* a check that asks storage, not the list, whether there is a supplier
SuppliersMissingInStorage(g) ==
    IF g = "product_generator" THEN Visible(g).suppliers = {}
    ELSE customer_ids = <<>> \/ product_ids = <<>>

\* what the generator finds under list_lock at the top of its loop
DependenciesMissing(g) ==
    IF g = "product_generator" THEN supplier_ids = <<>>
    ELSE customer_ids = <<>> \/ product_ids = <<>>

\* the top of the while loop: with list_lock, the check of the lists.  When a
\* list is empty the thread goes to time.sleep(5) inside the with block.
GenCheck(g) ==
    /\ gpc[g] = "loop"
    /\ list_lock = Free
    /\ IF DependenciesMissing(g)
         THEN /\ list_lock' = g
              /\ gpc' = [gpc EXCEPT ![g] = "wait_sleep"]
              /\ UNCHANGED <<gi, batchLog>>
         ELSE /\ BatchesBegun < MaxBatches
              /\ gpc' = [gpc EXCEPT ![g] = "batch"]
              /\ gi' = [gi EXCEPT ![g] = 0]
              /\ batchLog' = [batchLog EXCEPT ![g] =
                                Append(@, [rows |-> {}, fate |-> "open"])]
              /\ UNCHANGED list_lock
    /\ UNCHANGED <<CONFIG, pc, exitCode, setupVars, listVars, db, tx, nextId, ord>>
    /\ access' = Accessed(g, IF g = "product_generator" THEN {"supplier_ids"}
                            ELSE {"customer_ids", "product_ids"}, TRUE)
    /\ UNCHANGED <<schemaVars, toolVars>>

\* a wait without continue: after time.sleep(5) the thread falls through to
\* time.sleep(interval)
GenWaitThenInterval(g) ==
    /\ gpc[g] = "wait_sleep"
    /\ list_lock' = Free
    /\ gpc' = [gpc EXCEPT ![g] = "sleep"]
    /\ UNCHANGED <<CONFIG, pc, exitCode, setupVars, listVars, db, tx, nextId,
                   gi, batchLog, ord>>
    /\ UNCHANGED access
    /\ UNCHANGED <<schemaVars, toolVars>>

\* a wait that goes back to the top of the loop without leaving the with block
GenWaitKeepsLock(g) ==
    /\ gpc[g] = "wait_sleep"
    /\ gpc' = [gpc EXCEPT ![g] = "loop"]
    /\ UNCHANGED <<CONFIG, pc, exitCode, setupVars, listVars, db, tx, nextId,
                   gi, list_lock, batchLog, ord>>
    /\ UNCHANGED access
    /\ UNCHANGED <<schemaVars, toolVars>>

\* time.sleep(5) is over: the with block is left and continue goes to the top of
\* the loop, past time.sleep(interval)
GenWaitOver(g) ==
    /\ gpc[g] = "wait_sleep"
    /\ list_lock' = Free
    /\ gpc' = [gpc EXCEPT ![g] = "loop"]
    /\ UNCHANGED <<CONFIG, pc, exitCode, setupVars, listVars, db, tx, nextId,
                   gi, batchLog, ord>>
    /\ UNCHANGED access
    /\ UNCHANGED <<schemaVars, toolVars>>

\* an INSERT into products is refused when its supplier_id names no row
\* (fk_products_supplier)
ProductInsertRaises(row) == row.supplier_id \notin Visible("product_generator").suppliers

\* new_product_id = insert_single_product(cur, conn) in the product loop
ProductInsert ==
    /\ gpc["product_generator"] = "batch"
    /\ gi["product_generator"] < CONFIG.products_per_interval
    /\ list_lock = Free
    /\ \E r \in insert_single_product(product_types) :
          /\ \A row \in r.rows : ~ProductInsertRaises(row)
          /\ tx' = [tx EXCEPT !["product_generator"].products = @ \cup r.rows]
          /\ IF r.id = None
               THEN /\ gi' = [gi EXCEPT !["product_generator"] = @ + 1]
                    /\ UNCHANGED <<gpc, nextId, batchLog, ord>>
               ELSE /\ gpc' = [gpc EXCEPT !["product_generator"] = "append"]
                    /\ nextId' = Bump("products")
                    /\ batchLog' = BatchLogged("product_generator",
                                     {[table |-> "products", id |-> r.id]})
                    /\ ord' = [ord EXCEPT !.new_product_id = r.id]
                    /\ UNCHANGED gi
    /\ UNCHANGED <<CONFIG, pc, exitCode, setupVars, listVars, db, list_lock>>
    /\ access' = Accessed("product_generator", {"supplier_ids"}, TRUE)
    /\ UNCHANGED <<schemaVars, toolVars>>

\* the append without the with list_lock block around it
ProductAppendUnlocked ==
    /\ gpc["product_generator"] = "append"
    /\ product_ids' = Append(product_ids, ord.new_product_id)
    /\ gpc' = [gpc EXCEPT !["product_generator"] = "batch"]
    /\ gi' = [gi EXCEPT !["product_generator"] = @ + 1]
    /\ UNCHANGED <<CONFIG, pc, exitCode, setupVars, supplier_ids, employee_ids,
                   customer_ids, pet_ids, db, tx, nextId, list_lock, batchLog, ord>>
    /\ access' = Accessed("product_generator", {"product_ids"}, FALSE)
    /\ UNCHANGED <<schemaVars, toolVars>>

\* product_ids.insert(0, new_product_id) in place of the append
ProductAppendInFront ==
    /\ gpc["product_generator"] = "append"
    /\ list_lock = Free
    /\ product_ids' = <<ord.new_product_id>> \o product_ids
    /\ gpc' = [gpc EXCEPT !["product_generator"] = "batch"]
    /\ gi' = [gi EXCEPT !["product_generator"] = @ + 1]
    /\ UNCHANGED <<CONFIG, pc, exitCode, setupVars, supplier_ids, employee_ids,
                   customer_ids, pet_ids, db, tx, nextId, list_lock, batchLog, ord>>
    /\ access' = Accessed("product_generator", {"product_ids"}, TRUE)
    /\ UNCHANGED <<schemaVars, toolVars>>

\* the product loop without the append: the id is left out of product_ids
ProductAppendSkipped ==
    /\ gpc["product_generator"] = "append"
    /\ list_lock = Free
    /\ gpc' = [gpc EXCEPT !["product_generator"] = "batch"]
    /\ gi' = [gi EXCEPT !["product_generator"] = @ + 1]
    /\ UNCHANGED <<CONFIG, pc, exitCode, setupVars, listVars, db, tx, nextId,
                   list_lock, batchLog, ord>>
    /\ UNCHANGED access
    /\ UNCHANGED <<schemaVars, toolVars>>

\* with list_lock: product_ids.append(new_product_id); then time.sleep(0.1)
ProductAppend ==
    /\ gpc["product_generator"] = "append"
    /\ list_lock = Free
    /\ product_ids' = Append(product_ids, ord.new_product_id)
    /\ gpc' = [gpc EXCEPT !["product_generator"] = "batch"]
    /\ gi' = [gi EXCEPT !["product_generator"] = @ + 1]
    /\ UNCHANGED <<CONFIG, pc, exitCode, setupVars, supplier_ids, employee_ids,
                   customer_ids, pet_ids, db, tx, nextId, list_lock, batchLog, ord>>
    /\ access' = Accessed("product_generator", {"product_ids"}, TRUE)
    /\ UNCHANGED <<schemaVars, toolVars>>

\* a conn.commit() that does not wait for the end of the for loop
GenCommitEarly(g) ==
    /\ gpc[g] = "batch"
    /\ db' = Committed(g)
    /\ tx' = RolledBack(g)
    /\ batchLog' = [batchLog EXCEPT ![g][CurrentBatch(g)].fate = "committed"]
    /\ gpc' = [gpc EXCEPT ![g] = "sleep"]
    /\ UNCHANGED <<CONFIG, pc, exitCode, setupVars, listVars, nextId, gi,
                   list_lock, ord>>
    /\ UNCHANGED access
    /\ UNCHANGED <<schemaVars, toolVars>>

\* conn.commit() after the batch loop, then the print
GenCommit(g) ==
    /\ gpc[g] = "batch"
    /\ gi[g] >= BatchSize(g)
    /\ db' = Committed(g)
    /\ tx' = RolledBack(g)
    /\ batchLog' = [batchLog EXCEPT ![g][CurrentBatch(g)].fate = "committed"]
    /\ gpc' = [gpc EXCEPT ![g] = "sleep"]
    /\ UNCHANGED <<CONFIG, pc, exitCode, setupVars, listVars, nextId, gi,
                   list_lock, ord>>
    /\ UNCHANGED access
    /\ UNCHANGED <<schemaVars, toolVars>>

\* a handler without conn.rollback(): the rows of the batch stay in the
\* transaction of the connection
GenExceptKeepsRows(g) ==
    /\ tx' = tx
    /\ batchLog' = [batchLog EXCEPT ![g][CurrentBatch(g)].fate = "failed"]
    /\ gpc' = [gpc EXCEPT ![g] = "sleep"]

\* except Exception: conn.rollback() and the print; the loop goes on.  When
\* conn.rollback() raises in its turn (the connection is lost) the exception
\* leaves the thread's function: the thread ends and storage aborts the
\* transaction of its session.
GenExcept(g) ==
    /\ tx' = RolledBack(g)
    /\ batchLog' = [batchLog EXCEPT ![g][CurrentBatch(g)].fate = "failed"]
    /\ \E raised \in BOOLEAN :
          gpc' = [gpc EXCEPT ![g] = IF raised THEN "dead" ELSE "sleep"]

\* a statement or the commit of a batch raises
GenError(g) ==
    /\ gpc[g] \in {"batch", "items"}
    /\ GenExcept(g)
    /\ UNCHANGED <<CONFIG, pc, exitCode, setupVars, listVars, db, nextId, gi,
                   list_lock, ord>>
    /\ UNCHANGED access
    /\ UNCHANGED <<schemaVars, toolVars>>

\* time.sleep(CONFIG[interval]) at the end of the loop body
GenSleep(g) ==
    /\ gpc[g] = "sleep"
    /\ gpc' = [gpc EXCEPT ![g] = "loop"]
    /\ UNCHANGED <<CONFIG, pc, exitCode, setupVars, listVars, db, tx, nextId,
                   gi, list_lock, batchLog, ord>>
    /\ UNCHANGED access
    /\ UNCHANGED <<schemaVars, toolVars>>

\* get_table_columns(cur, 'orders'): the columns that are not virtual when
\* the query on virtual_column works, and otherwise (oracledb.Error) all
\* columns but total_amount and item_total
orders_columns ==
    {"order_id", "customer_id", "order_date", "total_amount", "order_status",
     "shipping_address", "city", "state", "zip_code", "payment_method",
     "shipped_date", "delivered_date"}

get_table_columns ==
    {orders_columns, orders_columns \ {"total_amount", "item_total"}}

\* a draw of up to num_items positions, possibly of none
SampleUpTo(num_items) ==
    {P \in SUBSET DOMAIN product_ids : Cardinality(P) <= num_items}

\* random.sample(product_ids, k=min(num_items, len(product_ids))), as the
\* positions of product_ids it draws
Sample(num_items) ==
    {P \in SUBSET DOMAIN product_ids :
        Cardinality(P) = Min(num_items, Len(product_ids))}

OrderRow(id, customer_id, total) ==
    [order_id |-> id, customer_id |-> customer_id, total_amount |-> total]

\* insert_single_order up to the choice of order_products: the customer from
\* the list, the SELECT of its address, the columns, the INSERT INTO orders
\* (total_amount takes its DEFAULT 0), and the sample of product_ids
OrderBegin ==
    /\ gpc["order_generator"] = "batch"
    /\ gi["order_generator"] < CONFIG.orders_per_interval
    /\ list_lock = Free
    /\ IF customer_ids = <<>>
         THEN /\ gi' = [gi EXCEPT !["order_generator"] = @ + 1]
              /\ UNCHANGED <<gpc, tx, nextId, batchLog, ord>>
         ELSE \E customer_id \in Range(customer_ids) :
           IF customer_id \notin Visible("order_generator").customers
             THEN /\ gi' = [gi EXCEPT !["order_generator"] = @ + 1]
                  /\ UNCHANGED <<gpc, tx, nextId, batchLog, ord>>
             ELSE /\ tx' = Inserted("order_generator", "orders",
                                    OrderRow(nextId.orders, customer_id, 0))
                  /\ nextId' = Bump("orders")
                  /\ batchLog' = BatchLogged("order_generator",
                                   {[table |-> "orders", id |-> nextId.orders]})
                  /\ IF product_ids = <<>>
                       THEN /\ gi' = [gi EXCEPT !["order_generator"] = @ + 1]
                            /\ UNCHANGED <<gpc, ord>>
                       ELSE /\ \E order_columns \in get_table_columns,
                                  num_items \in 1 .. MaxItems :
                                \E order_products \in Sample(num_items) :
                                  ord' = [ord EXCEPT
                                    !.order_id = nextId.orders,
                                    !.order_products = order_products,
                                    !.order_total = 0,
                                    !.total_in_columns =
                                        "total_amount" \in order_columns]
                            /\ gpc' = [gpc EXCEPT !["order_generator"] = "items"]
                            /\ UNCHANGED gi
    /\ UNCHANGED <<CONFIG, pc, exitCode, setupVars, listVars, db, list_lock>>
    /\ access' = Accessed("order_generator",
                        IF tx' # tx THEN {"customer_ids", "product_ids"}
                        ELSE {"customer_ids"}, TRUE)
    /\ UNCHANGED <<schemaVars, toolVars>>

\* one round of the loop over order_products: the SELECT of the price, and
\* unless it finds no row, the INSERT INTO order_items
\* a lookup that answers with a price for a product it does not find
PriceOrDefault(T, prod_id) ==
    IF \E q \in T.products : q.product_id = prod_id
      THEN {q.price : q \in {r \in T.products : r.product_id = prod_id}}
      ELSE {5}

PriceOf(T, prod_id) == {p.price : p \in {q \in T.products : q.product_id = prod_id}}

OrderItem ==
    /\ gpc["order_generator"] = "items"
    /\ \E pos \in ord.order_products :
         LET prod_id == product_ids[pos]
             found == PriceOf(Visible("order_generator"), prod_id)
         IN  IF found = {}
               THEN /\ ord' = [ord EXCEPT !.order_products = @ \ {pos}]
                    /\ UNCHANGED <<tx, nextId, batchLog>>
               ELSE \E price \in found, quantity \in Quantities :
                    /\ tx' = Inserted("order_generator", "order_items",
                               [order_item_id |-> nextId.order_items,
                                order_id |-> ord.order_id, product_id |-> prod_id,
                                quantity |-> quantity, unit_price |-> price])
                    /\ nextId' = Bump("order_items")
                    /\ batchLog' = BatchLogged("order_generator",
                               {[table |-> "order_items", id |-> nextId.order_items]})
                    /\ ord' = [ord EXCEPT !.order_products = @ \ {pos},
                                          !.order_total = @ + price * quantity]
    /\ UNCHANGED <<CONFIG, pc, exitCode, setupVars, listVars, db, gpc, gi, list_lock>>
    /\ UNCHANGED access
    /\ UNCHANGED <<schemaVars, toolVars>>

\* UPDATE orders SET total_amount = :1 WHERE order_id = :2
TotalUpdated(c, order_id, order_total) ==
    [tx EXCEPT ![c].orders =
        {IF o.order_id = order_id THEN [o EXCEPT !.total_amount = order_total] ELSE o
           : o \in @}]

\* the end of insert_single_order: the UPDATE when total_amount is among the
\* columns, and return order_id
OrderEnd ==
    /\ gpc["order_generator"] = "items"
    /\ ord.order_products = {}
    /\ tx' = IF ord.total_in_columns
               THEN TotalUpdated("order_generator", ord.order_id, ord.order_total)
               ELSE tx
    /\ gpc' = [gpc EXCEPT !["order_generator"] = "batch"]
    /\ gi' = [gi EXCEPT !["order_generator"] = @ + 1]
    /\ ord' = [ord EXCEPT !.order_id = None, !.order_total = 0,
                          !.total_in_columns = FALSE]
    /\ UNCHANGED <<CONFIG, pc, exitCode, setupVars, listVars, db, nextId,
                   list_lock, batchLog>>
    /\ UNCHANGED access
    /\ UNCHANGED <<schemaVars, toolVars>>

product_generator ==
    \/ GenConnect("product_generator")
    \/ GenCheck("product_generator")
    \/ GenWaitOver("product_generator")
    \/ ProductInsert
    \/ ProductAppend
    \/ GenCommit("product_generator")
    \/ GenError("product_generator")
    \/ GenSleep("product_generator")

order_generator ==
    \/ GenConnect("order_generator")
    \/ GenCheck("order_generator")
    \/ GenWaitOver("order_generator")
    \/ OrderBegin
    \/ OrderItem
    \/ OrderEnd
    \/ GenCommit("order_generator")
    \/ GenError("order_generator")
    \/ GenSleep("order_generator")

----------------------------------------------------------------------------
(* create_schema.py *)

\* the lists of drop_existing_objects
DropTables ==
    <<"oracle_datatypes_demo", "pet_care_logs", "order_items", "orders", "pets",
      "products", "employees", "customers", "suppliers">>

DropSequences ==
    <<"oracle_datatypes_demo_seq", "log_id_seq", "order_id_seq", "pet_id_seq",
      "product_id_seq", "employee_id_seq", "customer_id_seq", "supplier_id_seq">>

\* the keys of get_sequence_ddl(), in the order of the dictionary
SequenceOrder ==
    <<"supplier_id_seq", "employee_id_seq", "customer_id_seq", "product_id_seq",
      "pet_id_seq", "order_id_seq", "log_id_seq", "oracle_datatypes_demo_seq">>

\* the tables in the order of their names
TableOrderByName ==
    <<"customers", "employees", "oracle_datatypes_demo", "order_items", "orders",
      "pet_care_logs", "pets", "products", "suppliers">>

\* table_order of create_tables
table_order ==
    <<"suppliers", "employees", "customers", "products", "pets", "orders",
      "order_items", "pet_care_logs", "oracle_datatypes_demo">>

\* get_index_ddl(): each index, in the order of the dictionary, with its table
IndexOrder ==
    <<"idx_products_supplier", "idx_products_type", "idx_pets_species",
      "idx_pets_adoption_status", "idx_orders_customer", "idx_orders_date",
      "idx_orders_status", "idx_order_items_order", "idx_order_items_product",
      "idx_care_logs_pet", "idx_care_logs_employee", "idx_care_logs_datetime",
      "idx_datatypes_demo_date">>

IndexTable ==
    [idx_products_supplier |-> "products", idx_products_type |-> "products",
     idx_pets_species |-> "pets", idx_pets_adoption_status |-> "pets",
     idx_orders_customer |-> "orders", idx_orders_date |-> "orders",
     idx_orders_status |-> "orders", idx_order_items_order |-> "order_items",
     idx_order_items_product |-> "order_items",
     idx_care_logs_pet |-> "pet_care_logs",
     idx_care_logs_employee |-> "pet_care_logs",
     idx_care_logs_datetime |-> "pet_care_logs",
     idx_datatypes_demo_date |-> "oracle_datatypes_demo"]

\* get_table_ddl(): the tables the FOREIGN KEY ... REFERENCES clauses of each
\* table name
References ==
    [suppliers |-> {}, employees |-> {"employees"}, customers |-> {},
     products |-> {"suppliers"}, pets |-> {"products"}, orders |-> {"customers"},
     order_items |-> {"orders", "products"},
     pet_care_logs |-> {"pets", "employees"}, oracle_datatypes_demo |-> {}]

AllObjects ==
    Range(table_order) \cup Range(SequenceOrder) \cup Range(IndexOrder)

\* the loops of a run, in the order main goes through them
Items(stage) ==
    CASE stage = "drop_tables" -> DropTables
      [] stage = "drop_sequences" -> DropSequences
      [] stage = "create_sequences" -> SequenceOrder
      [] stage = "create_tables" -> table_order
      [] stage = "create_indexes" -> IndexOrder
      [] OTHER -> <<>>

\* a main that drops the existing objects in a dry run too
RunsDropInDryRun(stage) ==
    CASE stage = "drop_tables" -> args.drop_existing
      [] stage = "drop_sequences" -> args.drop_existing
      [] stage = "create_sequences" -> ~args.tables_only
      [] stage = "create_tables" -> ~args.sequences_only
      [] stage = "create_indexes" -> ~args.sequences_only
      [] OTHER -> TRUE

\* whether main goes through the loop at all (main, lines 605-627)
Runs(stage) ==
    CASE stage = "drop_tables" -> args.drop_existing /\ ~args.dry_run
      [] stage = "drop_sequences" -> args.drop_existing /\ ~args.dry_run
      [] stage = "create_sequences" -> ~args.tables_only
      [] stage = "create_tables" -> ~args.sequences_only
      [] stage = "create_indexes" -> ~args.sequences_only
      [] OTHER -> TRUE

Stages ==
    <<"drop_tables", "drop_sequences", "create_sequences", "create_tables",
      "create_indexes", "done">>

RECURSIVE StageFrom(_)
StageFrom(n) == IF Runs(Stages[n]) THEN Stages[n] ELSE StageFrom(n + 1)

StageAfter(stage) ==
    StageFrom(1 + CHOOSE n \in DOMAIN Stages : Stages[n] = stage)

\* the Oracle error codes the script tells apart
ORA_NameIsAlreadyUsed == 955
ORA_TableDoesNotExist == 942
ORA_SequenceDoesNotExist == 2289
ORA_Other == 1031
Ok == 0

FaultsSoFar == Cardinality(runs.faults) + Cardinality(runs.earlier)

\* what storage answers to a CREATE of name: done, ORA-00955 when the name is
\* taken, ORA-00942 for an index on a missing table, or another error
CreateAnswers(name) ==
    IF name \in objects THEN {ORA_NameIsAlreadyUsed}
    ELSE IF name \in DOMAIN IndexTable /\ IndexTable[name] \notin objects
      THEN {ORA_TableDoesNotExist}
    ELSE {Ok} \cup (IF FaultsSoFar < MaxSchemaFaults THEN {ORA_Other} ELSE {})

\* what storage answers to a DROP of name
DropAnswers(name) ==
    IF name \notin objects
      THEN {IF name \in Range(DropTables) THEN ORA_TableDoesNotExist
            ELSE ORA_SequenceDoesNotExist}
    ELSE {Ok} \cup (IF FaultsSoFar < MaxSchemaFaults THEN {ORA_Other} ELSE {})

\* DROP TABLE t CASCADE CONSTRAINTS takes the indexes of t with it
Dropped(name) ==
    objects \ ({name} \cup {x \in DOMAIN IndexTable : IndexTable[x] = name})

\* except clauses that raise whatever the error is
CreateRaisesAlways(stage, code) ==
    stage \in {"create_sequences", "create_tables"}

\* except clauses that raise every error but ORA-00955, for an index too
CreateRaisesForIndexes(stage, code) == code # ORA_NameIsAlreadyUsed

\* the except clauses of create_sequences, create_tables and create_indexes:
\* whether the error is raised again
CreateRaises(stage, code) ==
    /\ code # ORA_NameIsAlreadyUsed
    /\ stage \in {"create_sequences", "create_tables"}

\* the except clauses of drop_existing_objects print and go on
DropRaises(stage, code) == FALSE

NewRun(n, before) ==
    [run |-> n, before |-> before, warned |-> {}, executed |-> {},
     faults |-> {}, earlier |-> {}, aborted |-> {}, at_abort |-> {},
     commits |-> {}, rolled_back |-> FALSE]

SchemaArgs ==
    [password : BOOLEAN, drop_existing : BOOLEAN, tables_only : BOOLEAN,
     sequences_only : BOOLEAN, dry_run : BOOLEAN]

\* the schemas a run may find: none, the whole of it, a part of it
InitialSchemas ==
    {{}, AllObjects,
     {"suppliers", "supplier_id_seq", "products", "idx_products_supplier"}}

InitSchemaWith(lines, schemas) ==
    /\ args \in lines
    /\ spc = "parse_arguments"
    /\ stmt = 0
    /\ objects \in schemas
    /\ rc = NoExit
    /\ runs = NewRun(1, objects)

InitSchema == InitSchemaWith(SchemaArgs, InitialSchemas)

\* the schema generate_data runs on: create_schema has run before it
SchemaInPlace ==
    InitSchemaWith({[password |-> TRUE, drop_existing |-> FALSE,
                     tables_only |-> FALSE, sequences_only |-> FALSE,
                     dry_run |-> FALSE]}, {AllObjects})

\* parse_arguments of create_schema: parser.error leaves with status 2
SchemaParseArguments ==
    /\ spc = "parse_arguments"
    /\ IF ~args.password \/ (args.tables_only /\ args.sequences_only)
         THEN /\ spc' = "exited"
              /\ rc' = ParserErrorStatus
         ELSE /\ spc' = "connect"
              /\ UNCHANGED rc
    /\ UNCHANGED <<args, stmt, objects, runs>>
    /\ UNCHANGED <<dataVars, toolVars>>

\* conn = get_db_connection(config); when it raises, main returns 1
SchemaConnect ==
    /\ spc = "connect"
    /\ \/ /\ spc' = StageFrom(1)
          /\ rc' = IF StageFrom(1) = "done" THEN 0 ELSE rc
          /\ UNCHANGED runs
       \/ /\ spc' = "done"
          /\ rc' = 1
          /\ runs' = [runs EXCEPT !.faults = @ \cup {<<"connect", "connect">>}]
    /\ stmt' = 0
    /\ UNCHANGED <<args, objects>>
    /\ UNCHANGED <<dataVars, toolVars>>

\* one round of a loop of drop_existing_objects
DropStatement ==
    /\ spc \in {"drop_tables", "drop_sequences"}
    /\ stmt < Len(Items(spc))
    /\ LET name == Items(spc)[stmt + 1] IN
       \E code \in DropAnswers(name) :
          /\ objects' = IF code = Ok THEN Dropped(name) ELSE objects
          /\ runs' = [runs EXCEPT
                !.executed = @ \cup {<<spc, name>>},
                !.faults = IF code = ORA_Other THEN @ \cup {<<spc, name>>} ELSE @,
                !.aborted = IF code # Ok /\ DropRaises(spc, code)
                              THEN @ \cup {<<spc, name>>} ELSE @,
                !.at_abort = IF code # Ok /\ DropRaises(spc, code)
                              THEN runs.executed \cup {<<spc, name>>} ELSE @,
                !.rolled_back = IF code # Ok /\ DropRaises(spc, code)
                              THEN ~args.dry_run ELSE @]
          /\ IF code # Ok /\ DropRaises(spc, code)
               THEN /\ spc' = "done"
                    /\ rc' = 1
                    /\ stmt' = 0
               ELSE /\ stmt' = stmt + 1
                    /\ UNCHANGED <<spc, rc>>
    /\ UNCHANGED args
    /\ UNCHANGED <<dataVars, toolVars>>

\* one round of the loop of create_sequences, create_tables or create_indexes
CreateStatement ==
    /\ spc \in {"create_sequences", "create_tables", "create_indexes"}
    /\ stmt < Len(Items(spc))
    /\ LET name == Items(spc)[stmt + 1] IN
       IF args.dry_run
         THEN /\ stmt' = stmt + 1
              /\ UNCHANGED <<spc, objects, rc, runs>>
         ELSE \E code \in CreateAnswers(name) :
          /\ objects' = IF code = Ok THEN objects \cup {name} ELSE objects
          /\ runs' = [runs EXCEPT
                !.executed = @ \cup {<<spc, name>>},
                !.warned = IF code = ORA_NameIsAlreadyUsed THEN @ \cup {name} ELSE @,
                !.faults = IF code \notin {Ok, ORA_NameIsAlreadyUsed}
                             THEN @ \cup {<<spc, name>>} ELSE @,
                !.aborted = IF code # Ok /\ CreateRaises(spc, code)
                              THEN @ \cup {<<spc, name>>} ELSE @,
                !.at_abort = IF code # Ok /\ CreateRaises(spc, code)
                              THEN runs.executed \cup {<<spc, name>>} ELSE @,
                !.rolled_back = IF code # Ok /\ CreateRaises(spc, code)
                              THEN ~args.dry_run ELSE @]
          /\ IF code # Ok /\ CreateRaises(spc, code)
               THEN /\ spc' = "done"
                    /\ rc' = 1
                    /\ stmt' = 0
               ELSE /\ stmt' = stmt + 1
                    /\ UNCHANGED <<spc, rc>>
    /\ UNCHANGED args
    /\ UNCHANGED <<dataVars, toolVars>>

\* the conn.commit() that main calls after a loop: after drop_existing_objects
\* as a whole, and after each create function unless dry_run
CommitsAfter(stage) == stage # "drop_tables" /\ ~args.dry_run

\* a loop is over: conn.commit() and on to the next part of main; after the
\* last one main returns 0
SchemaStageDone ==
    /\ spc \in {"drop_tables", "drop_sequences", "create_sequences",
                "create_tables", "create_indexes"}
    /\ stmt >= Len(Items(spc))
    /\ spc' = StageAfter(spc)
    /\ rc' = IF StageAfter(spc) = "done" THEN 0 ELSE rc
    /\ stmt' = 0
    /\ runs' = IF CommitsAfter(spc)
                THEN [runs EXCEPT !.commits = @ \cup {spc}] ELSE runs
    /\ UNCHANGED <<args, objects>>
    /\ UNCHANGED <<dataVars, toolVars>>

\* the script is run once more with the same command line
SchemaRunAgain ==
    /\ spc = "done"
    /\ runs.run = 1
    /\ rc = 0
    /\ spc' = "parse_arguments"
    /\ rc' = NoExit
    /\ stmt' = 0
    /\ runs' = [NewRun(2, objects) EXCEPT !.earlier = runs.faults]
    /\ UNCHANGED <<args, objects>>
    /\ UNCHANGED <<dataVars, toolVars>>

create_schema ==
    \/ SchemaParseArguments
    \/ SchemaConnect
    \/ DropStatement
    \/ CreateStatement
    \/ SchemaStageDone
    \/ SchemaRunAgain

----------------------------------------------------------------------------
(* row_count.py *)

\* what get_table_row_count returns when the query raises oracledb.Error: the
\* string "Error".  No COUNT(*) is negative, so a negative number stands for
\* the value that is not an int.
Error == -1

SeqsUpTo(S, n) == UNION {[1 .. m -> S] : m \in 0 .. n}

\* a schema as storage answers for it: whether the query on all_tables
\* raises, and for each of its tables the COUNT(*) or Error when the count
\* raises
SchemaAnswers ==
    [fails : BOOLEAN, counts : SeqsUpTo((0 .. MaxRowCount) \cup {Error}, MaxTables)]

\* storage as the reporter meets it: the open schemas of dba_users in the
\* order of their names, the first being the connected user's, and which of
\* the other queries raise
ReportStorages ==
    [users : SeqsUpTo({a \in SchemaAnswers : ~a.fails \/ a.counts = <<>>}, MaxSchemas),
     version_fails : BOOLEAN, dba_users_fails : BOOLEAN, dual_fails : BOOLEAN]

NotReported == [printed |-> FALSE, total_tables |-> 0, total_rows |-> 0]

ReportWith(storage) ==
    [pc |-> "connect", storage |-> storage, schemas |-> <<>>, schema |-> 0,
     tables |-> <<>>, table |-> 0, total_tables |-> 0, total_rows |-> 0,
     schema_total_rows |-> 0, issued |-> {}, status |-> NoExit,
     summary |-> NotReported]

\* the reporter is not run
ReportIdle ==
    ReportWith([users |-> <<>>, version_fails |-> FALSE,
                dba_users_fails |-> FALSE, dual_fails |-> FALSE])

ReportNotRun == report = ReportIdle

\* connect_to_oracle: the connection, or sys.exit(1) on oracledb.Error
ReportConnect ==
    /\ report.pc = "connect"
    /\ \/ report' = [report EXCEPT !.pc = "version"]
       \/ report' = [report EXCEPT !.pc = "exited", !.status = 1]
    /\ UNCHANGED <<dataVars, schemaVars, loader>>

\* SELECT banner FROM v$version; an oracledb.Error goes to the except clause
\* of main and the finally clause closes the connection
ReportVersion ==
    /\ report.pc = "version"
    /\ report' = [report EXCEPT
          !.issued = @ \cup {"SELECT"},
          !.pc = IF report.storage.version_fails THEN "closed" ELSE "schemas"]
    /\ UNCHANGED <<dataVars, schemaVars, loader>>

\* get_all_schemas: the open users of dba_users; when that query raises the
\* current user of SELECT user FROM dual; when that raises too, none
get_all_schemas(storage) ==
    IF ~storage.dba_users_fails THEN [n \in DOMAIN storage.users |-> n]
    ELSE IF ~storage.dual_fails THEN <<1>>
    ELSE <<>>

\* schemas = get_all_schemas(cursor); return when there is none, else the
\* totals are set to 0 and the loop over the schemas begins
ReportSchemas ==
    /\ report.pc = "schemas"
    /\ LET found == get_all_schemas(report.storage) IN
       report' = [report EXCEPT
          !.issued = @ \cup {"SELECT"},
          !.schemas = found,
          !.schema = 1,
          !.total_tables = 0,
          !.total_rows = 0,
          !.pc = IF found = <<>> THEN "closed" ELSE "schema"]
    /\ UNCHANGED <<dataVars, schemaVars, loader>>

\* get_tables_in_schema: the tables of all_tables, none when the query raises
get_tables_in_schema(storage, schema) ==
    IF storage.users[schema].fails THEN <<>>
    ELSE [n \in DOMAIN storage.users[schema].counts |-> n]

\* the top of the loop over the schemas: the tables of the schema; continue
\* when there is none; after the last schema the summary is printed and
\* the finally clause closes the connection
ReportSchema ==
    /\ report.pc = "schema"
    /\ IF report.schema > Len(report.schemas)
         THEN report' = [report EXCEPT
                !.pc = "closed",
                !.summary = [printed |-> TRUE,
                             total_tables |-> report.total_tables,
                             total_rows |-> report.total_rows]]
         ELSE LET found == get_tables_in_schema(report.storage,
                                                report.schemas[report.schema])
              IN  report' = [report EXCEPT
                     !.issued = @ \cup {"SELECT"},
                     !.tables = found,
                     !.table = 1,
                     !.schema_total_rows = 0,
                     !.schema = IF found = <<>> THEN @ + 1 ELSE @,
                     !.pc = IF found = <<>> THEN "schema" ELSE "table"]
    /\ UNCHANGED <<dataVars, schemaVars, loader>>

\* get_table_row_count: SELECT COUNT(*), Error when it raises
get_table_row_count(storage, schema, table) == storage.users[schema].counts[table]

\* isinstance(row_count, int)
isinstance_int(row_count) == row_count # Error

\* a reporter that adds a row for a table it could not count
RowsAddedForErrors(row_count) == IF isinstance_int(row_count) THEN row_count ELSE 1

\* if isinstance(row_count, int): what is added to schema_total_rows and to
\* total_rows
RowsAdded(row_count) == IF isinstance_int(row_count) THEN row_count ELSE 0

\* one round of the loop over the tables of a schema; after the last table
\* total_tables += len(tables) and the loop over the schemas goes on
ReportTable ==
    /\ report.pc = "table"
    /\ IF report.table > Len(report.tables)
         THEN report' = [report EXCEPT
                !.total_tables = @ + Len(report.tables),
                !.schema = @ + 1,
                !.pc = "schema"]
         ELSE LET row_count == get_table_row_count(report.storage,
                                  report.schemas[report.schema],
                                  report.tables[report.table])
              IN  report' = [report EXCEPT
                     !.issued = @ \cup {"SELECT"},
                     !.schema_total_rows = @ + RowsAdded(row_count),
                     !.total_rows = @ + RowsAdded(row_count),
                     !.table = @ + 1]
    /\ UNCHANGED <<dataVars, schemaVars, loader>>

\* KeyboardInterrupt in main: the except clause prints, the finally clause
\* closes the connection
ReportInterrupt ==
    /\ report.pc \in {"version", "schemas", "schema", "table"}
    /\ report' = [report EXCEPT !.pc = "closed"]
    /\ UNCHANGED <<dataVars, schemaVars, loader>>

row_count ==
    \/ ReportConnect
    \/ ReportVersion
    \/ ReportSchemas
    \/ ReportSchema
    \/ ReportTable
    \/ ReportInterrupt

----------------------------------------------------------------------------
(* create_catalog_inventory.py *)

LoaderTables == {"catalog", "inventory", "items"}

\* the order of the CREATE TABLE statements of create_tables
loader_table_order == <<"catalog", "inventory", "items">>

NoRows == [catalog |-> {}, inventory |-> {}, items |-> {}]

FirstIds == [catalog |-> 1, inventory |-> 1, items |-> 1]

\* a catalog row is its catalog_id; the other rows are their keys
InventoryRow(inventory_id, catalog_id) ==
    [inventory_id |-> inventory_id, catalog_id |-> catalog_id]

ItemRow(item_id, catalog_id, inventory_id) ==
    [item_id |-> item_id, catalog_id |-> catalog_id, inventory_id |-> inventory_id]

\* what the program may find in storage: no table, the catalog table of
\* another origin alone (empty or not), the three tables empty, and the three
\* tables as earlier runs left them
LoaderStorages ==
    {[exists |-> {}, db |-> NoRows, nextId |-> FirstIds],
     [exists |-> {"catalog"}, db |-> NoRows, nextId |-> FirstIds],
     [exists |-> {"catalog"}, db |-> [NoRows EXCEPT !.catalog = {1}],
      nextId |-> [FirstIds EXCEPT !.catalog = 2]],
     [exists |-> LoaderTables, db |-> NoRows, nextId |-> FirstIds],
     [exists |-> LoaderTables, db |-> [NoRows EXCEPT !.catalog = {1}],
      nextId |-> [FirstIds EXCEPT !.catalog = 2]],
     [exists |-> LoaderTables,
      db |-> [catalog |-> {1, 2}, inventory |-> {InventoryRow(1, 2)},
              items |-> {ItemRow(1, 2, 1)}],
      nextId |-> [catalog |-> 3, inventory |-> 2, items |-> 2]]}

\* parse_arguments: the options main reads
LoaderArgs ==
    [password : BOOLEAN, dry_run : BOOLEAN, drop_existing : BOOLEAN,
     no_truncate : BOOLEAN, catalog_rows : 0 .. MaxLoaderRows,
     inventory_rows : 0 .. MaxLoaderRows, items_rows : 0 .. MaxLoaderRows]

LoaderWith(a, storage) ==
    [pc |-> "parse", args |-> a, exists |-> storage.exists, db |-> storage.db,
     tx |-> NoRows, nextId |-> storage.nextId, catalog_ids |-> {},
     id_pairs |-> {}, i |-> 0, status |-> NoExit]

\* the program is not run
LoaderIdle ==
    LoaderWith([password |-> FALSE, dry_run |-> FALSE, drop_existing |-> FALSE,
                no_truncate |-> FALSE, catalog_rows |-> 0, inventory_rows |-> 0,
                items_rows |-> 0],
               [exists |-> {}, db |-> NoRows, nextId |-> FirstIds])

ToolsIdle == ReportNotRun /\ loader = LoaderIdle

\* what the statements of the connection see
LoaderVisible(l) == [t \in LoaderTables |-> l.db[t] \cup l.tx[t]]

\* return code of main; the process ends and the connection, never closed on
\* an error, is gone with its open transaction
LoaderExit(l, code) == [l EXCEPT !.pc = "exited", !.status = code, !.tx = NoRows]

\* main: the password is required; --dry-run prints and returns 0
LoaderParse ==
    /\ loader.pc = "parse"
    /\ loader' = IF ~loader.args.password THEN LoaderExit(loader, 1)
                 ELSE IF loader.args.dry_run THEN LoaderExit(loader, 0)
                 ELSE [loader EXCEPT !.pc = "connect"]
    /\ UNCHANGED <<dataVars, schemaVars, report>>

\* get_db_connection: the connection, or the error raised again and return 1
LoaderConnect ==
    /\ loader.pc = "connect"
    /\ \/ loader' = [loader EXCEPT !.pc = "tables"]
       \/ loader' = LoaderExit(loader, 1)
    /\ UNCHANGED <<dataVars, schemaVars, report>>

\* drop_existing_tables: DROP TABLE ... CASCADE CONSTRAINTS of items, inventory,
\* catalog; every error is caught, so the tables of kept stay
drop_existing_tables(l, kept) ==
    [l EXCEPT !.exists = kept,
              !.db = [t \in LoaderTables |-> IF t \in kept THEN @[t] ELSE {}]]

\* create_tables: the first n CREATE TABLE statements succeed; the next one
\* raises (the table exists, or another error) and the error is raised again
TablesCreated(l, n) ==
    LET new == {loader_table_order[k] : k \in 1 .. n} IN
    [l EXCEPT !.exists = @ \cup new,
              !.nextId = [t \in LoaderTables |-> IF t \in new THEN 1 ELSE @[t]],
              !.pc = IF n = Len(loader_table_order) THEN "truncate" ELSE "exited",
              !.status = IF n = Len(loader_table_order) THEN @ ELSE 1]

create_tables(l) ==
    {TablesCreated(l, n) : n \in {m \in 0 .. Len(loader_table_order) :
        \A k \in 1 .. m : loader_table_order[k] \notin l.exists}}

\* main: with --drop-existing the tables are dropped and created; without it
\* they are created when SELECT COUNT(*) FROM catalog raises
LoaderCreate ==
    /\ loader.pc = "tables"
    /\ IF loader.args.drop_existing
         THEN \E kept \in SUBSET loader.exists :
                 loader' \in create_tables(drop_existing_tables(loader, kept))
         ELSE IF "catalog" \in loader.exists
                THEN loader' = [loader EXCEPT !.pc = "truncate"]
                ELSE loader' \in create_tables(loader)
    /\ UNCHANGED <<dataVars, schemaVars, report>>

\* rows left when the TRUNCATE of the tables of done succeeds
Truncated(l, done) == [t \in LoaderTables |-> IF t \in done THEN {} ELSE l.db[t]]

\* storage refuses to empty a table while rows of another one refer to it
TruncateAllowed(l, done) ==
    /\ "inventory" \in done => Truncated(l, done).items = {}
    /\ "catalog" \in done => /\ Truncated(l, done).inventory = {}
                             /\ Truncated(l, done).items = {}

\* truncate_tables, unless --no-truncate: TRUNCATE TABLE ... CASCADE of items,
\* inventory, catalog; every error is caught and printed as a warning
LoaderTruncate ==
    /\ loader.pc = "truncate"
    /\ IF loader.args.no_truncate
         THEN loader' = [loader EXCEPT !.pc = "catalog", !.i = 0]
         ELSE \E done \in SUBSET loader.exists :
                 /\ TruncateAllowed(loader, done)
                 /\ loader' = [loader EXCEPT !.db = Truncated(loader, done),
                                             !.pc = "catalog", !.i = 0]
    /\ UNCHANGED <<dataVars, schemaVars, report>>

\* generate_catalog_data: one INSERT INTO catalog of the loop; an error (the
\* catalog_code is there already) goes to the except clause of main
LoaderInsertCatalog ==
    /\ loader.pc = "catalog"
    /\ loader.i < loader.args.catalog_rows
    /\ \/ loader' = [loader EXCEPT !.tx.catalog = @ \cup {loader.nextId.catalog},
                                   !.nextId.catalog = @ + 1,
                                   !.i = @ + 1]
       \/ loader' = LoaderExit(loader, 1)
    /\ UNCHANGED <<dataVars, schemaVars, report>>

\* generate_inventory_data: catalog_ids = SELECT catalog_id FROM catalog; return
\* when there is none
LoaderSelectCatalog ==
    /\ loader.pc = "catalog"
    /\ loader.i >= loader.args.catalog_rows
    /\ LET catalog_ids == LoaderVisible(loader).catalog IN
       loader' = [loader EXCEPT
          !.catalog_ids = catalog_ids,
          !.i = 0,
          !.pc = IF catalog_ids = {} THEN "inventory_done" ELSE "inventory"]
    /\ UNCHANGED <<dataVars, schemaVars, report>>

\* an INSERT INTO inventory raises when the table is not there or its
\* catalog_id names no catalog row (fk_inventory_catalog)
InventoryInsertRaises(l, row) ==
    \/ "inventory" \notin l.exists
    \/ row.catalog_id \notin LoaderVisible(l).catalog

\* generate_inventory_data: one INSERT INTO inventory of the loop, its
\* catalog_id drawn with random.choice(catalog_ids)
LoaderInsertInventory ==
    /\ loader.pc = "inventory"
    /\ loader.i < loader.args.inventory_rows
    /\ \E catalog_id \in loader.catalog_ids :
          LET row == InventoryRow(loader.nextId.inventory, catalog_id) IN
          \/ /\ ~InventoryInsertRaises(loader, row)
             /\ loader' = [loader EXCEPT !.tx.inventory = @ \cup {row},
                                         !.nextId.inventory = @ + 1,
                                         !.i = @ + 1]
          \/ loader' = LoaderExit(loader, 1)
    /\ UNCHANGED <<dataVars, schemaVars, report>>

\* the pairs of an inventory row of one catalog row with that of another
CatalogInventoryProduct(T) ==
    {<<c, inv.inventory_id>> : c \in T.catalog, inv \in T.inventory}

\* SELECT c.catalog_id, i.inventory_id FROM catalog c JOIN inventory i
\* ON c.catalog_id = i.catalog_id
CatalogInventoryJoin(T) ==
    {<<inv.catalog_id, inv.inventory_id>> :
        inv \in {x \in T.inventory : x.catalog_id \in T.catalog}}

\* generate_items_data: id_pairs = the join of catalog and inventory, which
\* raises when inventory is not there; return when there is no pair
LoaderSelectPairs ==
    /\ \/ loader.pc = "inventory_done"
       \/ loader.pc = "inventory" /\ loader.i >= loader.args.inventory_rows
    /\ IF "inventory" \notin loader.exists
         THEN loader' = LoaderExit(loader, 1)
         ELSE LET id_pairs == CatalogInventoryJoin(LoaderVisible(loader)) IN
              loader' = [loader EXCEPT
                 !.id_pairs = id_pairs,
                 !.i = 0,
                 !.pc = IF id_pairs = {} THEN "items_done" ELSE "items"]
    /\ UNCHANGED <<dataVars, schemaVars, report>>

\* an INSERT INTO items raises when the table is not there or a key of it
\* names no row (fk_items_catalog, fk_items_inventory)
ItemInsertRaises(l, row) ==
    \/ "items" \notin l.exists
    \/ row.catalog_id \notin LoaderVisible(l).catalog
    \/ row.inventory_id \notin {inv.inventory_id : inv \in LoaderVisible(l).inventory}

\* generate_items_data: one INSERT INTO items of the loop, its keys drawn with
\* random.choice(id_pairs)
LoaderInsertItem ==
    /\ loader.pc = "items"
    /\ loader.i < loader.args.items_rows
    /\ \E pair \in loader.id_pairs :
          LET row == ItemRow(loader.nextId.items, pair[1], pair[2]) IN
          \/ /\ ~ItemInsertRaises(loader, row)
             /\ loader' = [loader EXCEPT !.tx.items = @ \cup {row},
                                         !.nextId.items = @ + 1,
                                         !.i = @ + 1]
          \/ loader' = LoaderExit(loader, 1)
    /\ UNCHANGED <<dataVars, schemaVars, report>>

\* conn.commit() after the three generators, or its error
LoaderCommit ==
    /\ \/ loader.pc = "items_done"
       \/ loader.pc = "items" /\ loader.i >= loader.args.items_rows
    /\ \/ loader' = [loader EXCEPT !.db = LoaderVisible(loader), !.tx = NoRows,
                                   !.pc = "summary"]
       \/ loader' = LoaderExit(loader, 1)
    /\ UNCHANGED <<dataVars, schemaVars, report>>

\* the three SELECT COUNT(*) of the summary, close, return 0
LoaderSummary ==
    /\ loader.pc = "summary"
    /\ loader' = IF LoaderTables \subseteq loader.exists
                   THEN LoaderExit(loader, 0) ELSE LoaderExit(loader, 1)
    /\ UNCHANGED <<dataVars, schemaVars, report>>

create_catalog_inventory ==
    \/ LoaderParse
    \/ LoaderConnect
    \/ LoaderCreate
    \/ LoaderTruncate
    \/ LoaderInsertCatalog
    \/ LoaderSelectCatalog
    \/ LoaderInsertInventory
    \/ LoaderSelectPairs
    \/ LoaderInsertItem
    \/ LoaderCommit
    \/ LoaderSummary

----------------------------------------------------------------------------
(* The specification of the main program up to the start of the threads *)

\* The groups of initial_setup depend on each other in two clusters only
\* (suppliers, products and pets; employees, pets and care logs), so the runs
\* vary the counts of one cluster at a time, and the options on their own.
SetupConfigs ==
    Configs({TRUE}, 0 .. MaxSuppliers, {3}, {1}, 0 .. MaxProducts, 0 .. MaxPets,
            {0}, {0}, {1}, {FALSE})
    \cup Configs({TRUE}, {1}, 0 .. MaxEmployees, 0 .. MaxCustomers, {1}, {1},
                 0 .. MaxLogs, 0 .. MaxLogs, {1}, {FALSE})
    \cup Configs(BOOLEAN, {0, 1}, {3}, {1}, {1}, {1}, {0}, {0}, {1}, BOOLEAN)

InitSetup == InitWith(SetupConfigs) /\ SchemaInPlace /\ ToolsIdle

NextSetup == main \/ initial_setup

SpecSetup == InitSetup /\ [][NextSetup]_vars

----------------------------------------------------------------------------
(* The specification of the whole of generate_data *)

\* one run that goes on to the generators, one that does so with no supplier
\* (the products of the setup are then not inserted), one whose product
\* batches hold a product more while the order generator finds no customer,
\* one that keeps the rows of storage and fills no list (--no-truncate
\* --no-initial-data), and two that stop after the setup (--setup-only,
\* --no-realtime)
GenConfigs ==
    LET realtime ==
          Configs({TRUE}, {1}, {3}, {1}, {1}, {1}, {0}, {0}, 1 .. MaxBatch, {FALSE})
    IN  realtime
        \cup {[c EXCEPT !.initial_suppliers = 0, !.initial_products = MaxProducts]
                 : c \in realtime}
        \cup {[c EXCEPT !.products_per_interval = MaxBatch + 1,
                        !.initial_customers = 0, !.initial_products = 0] : c \in realtime}
        \cup {[c EXCEPT !.setup_only = TRUE, !.initial_care_logs = MaxLogs,
                        !.initial_datatypes_demo = MaxLogs] : c \in realtime}
        \cup {[c EXCEPT !.no_truncate = TRUE, !.no_initial_data = TRUE] : c \in realtime}
        \cup {[c EXCEPT !.no_realtime = TRUE] : c \in realtime}

Init == InitWith(GenConfigs) /\ SchemaInPlace /\ ToolsIdle

Next == main \/ initial_setup \/ product_generator \/ order_generator

Spec == Init /\ [][Next]_vars

----------------------------------------------------------------------------
(* The specification of create_schema, run once or twice *)

SchemaIdleConfigs ==
    Configs({TRUE}, {1}, {3}, {1}, {1}, {1}, {0}, {0}, {1}, {FALSE})

InitOfSchema ==
    InitWith(SchemaIdleConfigs) /\ db = EmptyTables /\ InitSchema /\ ToolsIdle

NextSchema == create_schema

SpecSchema == InitOfSchema /\ [][NextSchema]_vars

----------------------------------------------------------------------------
(* The specification of row_count *)

InitReport ==
    /\ InitWith(SchemaIdleConfigs) /\ db = EmptyTables /\ SchemaInPlace
    /\ report \in {ReportWith(storage) : storage \in
                     {x \in ReportStorages : x.dba_users_fails => x.users # <<>>}}
    /\ loader = LoaderIdle

NextReport == row_count

SpecReport == InitReport /\ [][NextReport]_vars

----------------------------------------------------------------------------
(* The specification of create_catalog_inventory *)

InitLoader ==
    /\ InitWith(SchemaIdleConfigs) /\ db = EmptyTables /\ SchemaInPlace
    /\ ReportNotRun
    /\ loader \in {LoaderWith(a, storage) : a \in LoaderArgs, storage \in LoaderStorages}

NextLoader == create_catalog_inventory

SpecLoader == InitLoader /\ [][NextLoader]_vars

----------------------------------------------------------------------------
(* The specification of generate_data under fair scheduling of its threads *)

\* a run whose setup leaves suppliers and customers but no product, and a run
\* that stops after a setup of every group
LiveConfigs ==
    Configs({TRUE}, {1}, {3}, {1}, {0}, {0}, {0}, {0}, {1}, {FALSE})
    \cup {[c EXCEPT !.setup_only = TRUE] :
            c \in Configs({TRUE}, {1}, {3}, {1}, {1}, {1}, {MaxLogs}, {MaxLogs},
                          {1}, {FALSE})}

InitLive == InitWith(LiveConfigs) /\ db = EmptyTables /\ SchemaInPlace /\ ToolsIdle

\* the steps of the main thread but the interrupt from the keyboard
MainThread ==
    \/ parse_arguments
    \/ initial_setup
    \/ ExitAfterSetup
    \/ StartProductThread
    \/ StartOrderThread

\* a thread that can go on does go on; list_lock itself (threading.Lock)
\* promises nothing about which thread gets it
Fairness ==
    /\ WF_vars(MainThread)
    /\ WF_vars(product_generator)
    /\ WF_vars(order_generator)

SpecLive == InitLive /\ [][Next]_vars /\ Fairness

----------------------------------------------------------------------------
(* Properties of generate_data *)

RECURSIVE SumOf(_)
SumOf(items) ==
    IF items = {} THEN 0
    ELSE LET it == CHOOSE x \in items : TRUE
         IN  it.quantity * it.unit_price + SumOf(items \ {it})

ItemsOf(T, order_id) == {it \in T.order_items : it.order_id = order_id}

\* the orders whose insert_single_order call is over, as the connection of
\* order_generator sees them
FinishedOrders ==
    {o \in Visible("order_generator").orders : o.order_id # ord.order_id}

\* C1: for every order insert_single_order has finished, the stored
\* total_amount equals the sum of quantity * unit_price over the order_items
\* rows inserted for that order (total_amount is a real column of orders).
C1_TotalIsSumOfItems ==
    \A o \in FinishedOrders :
        o.total_amount = SumOf(ItemsOf(Visible("order_generator"), o.order_id))

CommittedRows(rows) == {r \in rows : r.id \in Ids(db, r.table)}

\* C2: of the rows a generator inserted in one batch, either all or none are
\* committed, and none are when the batch failed or is still open.
C2_BatchAtomic ==
    \A g \in Gens : \A b \in DOMAIN batchLog[g] :
        LET batch == batchLog[g][b] IN
        /\ CommittedRows(batch.rows) \in {{}, batch.rows}
        /\ batch.fate \in {"failed", "open"} => CommittedRows(batch.rows) = {}
        /\ batch.fate = "committed" => CommittedRows(batch.rows) = batch.rows

\* a batch that failed after it had inserted rows, and a committed batch of
\* several rows
C2_Witness ==
    /\ \E g \in Gens : \E b \in DOMAIN batchLog[g] :
          batchLog[g][b].fate = "failed" /\ batchLog[g][b].rows # {}
    /\ \E g \in Gens : \E b \in DOMAIN batchLog[g] :
          batchLog[g][b].fate = "committed" /\ Cardinality(batchLog[g][b].rows) >= 2

BatchFails(g) ==
    /\ batchLog[g] # <<>>
    /\ batchLog[g][Len(batchLog[g])].fate = "open"
    /\ Len(batchLog'[g]) = Len(batchLog[g])
    /\ batchLog'[g][Len(batchLog[g])].fate = "failed"

\* C3: when a batch of a generator raises, the generator rolls the batch back
\* and goes to the sleep of its interval; from that sleep it goes back to the
\* top of its loop (or is killed with the process); a generator only ends
\* where it fails to connect, never in a batch.
C3_FailureKeepsGeneratorAlive ==
    [][\A g \in Gens :
         /\ BatchFails(g) => tx'[g] = EmptyTables /\ gpc'[g] = "sleep"
         /\ gpc[g] = "sleep" /\ gpc'[g] # "sleep" => gpc'[g] \in {"loop", "killed"}
         /\ gpc'[g] = "dead" => gpc[g] \in {"connect", "dead"}]_vars

SetupOver == pc \in {"setup_returned", "start_order_thread", "running", "exited"}

\* initial_setup went through all its groups and raised nothing
SetupSucceeded ==
    /\ SetupOver
    /\ ~setupFailed
    /\ ~CONFIG.no_initial_data
    /\ CONFIG.password

\* C4: after an initial_setup that completed without error on freshly
\* truncated tables, suppliers, employees, customers, products and pets hold
\* as many rows as requested.
C4_CountsAsRequested ==
    SetupSucceeded /\ setupLog.fresh =>
        /\ Cardinality(db.suppliers) = CONFIG.initial_suppliers
        /\ Cardinality(db.employees) = CONFIG.initial_employees
        /\ Cardinality(db.customers) = CONFIG.initial_customers
        /\ Cardinality(db.products) = CONFIG.initial_products
        /\ Cardinality(db.pets) = CONFIG.initial_pets

SetupRowCommitted(r) == r.id \in Ids(db, r.table)

\* C5 as the spec states it: after an initial_setup in which an insert
\* failed, no row inserted by that setup run is committed.
C5_WholeSetupRolledBack ==
    SetupOver /\ setupFailed => \A r \in setupLog.rows : ~SetupRowCommitted(r)

\* C5 as amended: after an initial_setup in which a statement failed, the rows
\* it inserted since its last commit are not committed, and the rows of the
\* groups it had committed before are.
C5_FailedGroupRolledBack ==
    SetupOver /\ setupFailed =>
        \A r \in setupLog.rows : SetupRowCommitted(r) <=> r.group \in setupLog.committed

\* a failed setup with a committed row and a row that was rolled back
C5_Witness ==
    /\ SetupOver /\ setupFailed
    /\ \E r \in setupLog.rows : SetupRowCommitted(r)
    /\ \E r \in setupLog.rows : ~SetupRowCommitted(r)

\* C6: when initial_setup fails, no generator is ever started and the process
\* does not end with exit code 0.
C6_FailedSetupStartsNothing ==
    setupFailed =>
        /\ \A g \in Gens : gpc[g] = "not_started"
        /\ pc = "exited" => exitCode \notin {0}

\* C7: the exit code is 0 or 1, and it is 1 when the password is missing.
C7_ExitCodeZeroOrOne ==
    pc = "exited" =>
        /\ exitCode \in {0, 1}
        /\ ~CONFIG.password => exitCode = 1

EmployeeWithId(id) == {e \in db.employees : e.employee_id = id}

\* C10: after a successful initial_setup every employee it inserted but the
\* first has as manager_id the id of an employee inserted before it in the
\* same run, and the first has no manager.
C10_ManagerInsertedEarlier ==
    SetupSucceeded =>
        \A n \in DOMAIN employee_ids :
            /\ EmployeeWithId(employee_ids[n]) # {}
            /\ \A e \in EmployeeWithId(employee_ids[n]) :
                 IF n = 1 THEN e.manager_id = None
                 ELSE \E m \in 1 .. (n - 1) : e.manager_id = employee_ids[m]

\* a successful setup that inserted the three fixed employees and one more
C10_Witness ==
    /\ SetupSucceeded
    /\ Len(employee_ids) = MaxEmployees
    /\ Cardinality(db.employees) = MaxEmployees

SetupPets == {pet \in db.pets : pet.pet_id \in Range(pet_ids)}

\* C11: after a successful initial_setup every pet row it inserted has a
\* product_id that names a product row of type "Pet", whatever counts were
\* requested.
C11_PetsReferencePetProducts ==
    SetupSucceeded =>
        \A pet \in SetupPets :
            \E p \in db.products :
                p.product_id = pet.product_id /\ p.product_type = "Pet"

\* C12 as the spec states it: every access to one of the five lists of ids
\* is made inside a with list_lock block.
C12_EveryAccessLocked == \A a \in access : a.locked

\* C12 as amended: every access of a generator thread to the lists is made
\* inside a with list_lock block; initial_setup appends to and reads the lists
\* outside any such block, and does so only while no generator thread has
\* been started.
C12_GeneratorAccessLocked ==
    \A a \in access :
        \/ a.locked
        \/ a.by = "initial_setup" /\ a.alone

\* initial_setup has appended without the lock and both generators have gone
\* through their locked accesses
C12_Witness ==
    /\ \E a \in access : a.by = "initial_setup" /\ ~a.locked
    /\ \E a \in access : a.by = "product_generator" /\ a.list = "product_ids"
    /\ \E a \in access : a.by = "order_generator" /\ a.list = "product_ids"

Extends(old, new) ==
    /\ Len(old) <= Len(new)
    /\ \A n \in DOMAIN old : new[n] = old[n]

\* C13: in every step each of the five lists of ids is kept or extended at
\* its end: no entry is removed, replaced or moved.
C13_ListsOnlyGrow ==
    [][/\ Extends(supplier_ids, supplier_ids')
       /\ Extends(employee_ids, employee_ids')
       /\ Extends(customer_ids, customer_ids')
       /\ Extends(product_ids, product_ids')
       /\ Extends(pet_ids, pet_ids')]_vars

\* the product generator has appended to the list the setup had filled
C13_Witness ==
    /\ Len(product_ids) > CONFIG.initial_products
    /\ CONFIG.initial_products > 0
    /\ \E a \in access : a.by = "product_generator" /\ a.list = "product_ids"

CommittedBatches(g) ==
    {b \in DOMAIN batchLog[g] : batchLog[g][b].fate = "committed"}

RowsOfBatches(g, batches, table) ==
    {r \in UNION {batchLog[g][b].rows : b \in batches} : r.table = table}

\* C14: every committed batch of the product generator holds exactly
\* products_per_interval rows of products and every committed batch of the
\* order generator at most orders_per_interval rows of orders; the k committed
\* batches of a generator hold together k times as many (products) and at most
\* k times as many (orders).
C14_BatchSizes ==
    /\ \A b \in CommittedBatches("product_generator") :
          Cardinality(RowsOfBatches("product_generator", {b}, "products"))
              = CONFIG.products_per_interval
    /\ \A b \in CommittedBatches("order_generator") :
          Cardinality(RowsOfBatches("order_generator", {b}, "orders"))
              <= CONFIG.orders_per_interval
    /\ Cardinality(RowsOfBatches("product_generator",
                                 CommittedBatches("product_generator"), "products"))
          = Cardinality(CommittedBatches("product_generator"))
              * CONFIG.products_per_interval
    /\ Cardinality(RowsOfBatches("order_generator",
                                 CommittedBatches("order_generator"), "orders"))
          <= Cardinality(CommittedBatches("order_generator"))
              * CONFIG.orders_per_interval

\* each generator has committed a batch, the order generator one with an order
C14_Witness ==
    /\ CONFIG.products_per_interval > 0
    /\ CommittedBatches("product_generator") # {}
    /\ \E b \in CommittedBatches("order_generator") :
          RowsOfBatches("order_generator", {b}, "orders") # {}

\* C15: a generator that finds one of the lists it depends on empty at the
\* check begins no batch and inserts nothing in that iteration: it goes to the
\* wait of 5 and from there back to the check, not through the sleep of its
\* interval; and every insert of a generator is made in an iteration whose
\* check found the lists filled.
C15_NoInsertWithoutDependencies ==
    [][\A g \in Gens :
          /\ (gpc[g] = "loop" /\ DependenciesMissing(g) /\ gpc'[g] # "loop")
                => /\ gpc'[g] \in {"wait_sleep", "killed"}
                   /\ batchLog'[g] = batchLog[g]
                   /\ tx'[g] = tx[g]
          /\ (gpc[g] = "wait_sleep" /\ gpc'[g] # "wait_sleep")
                => /\ gpc'[g] \in {"loop", "killed"}
                   /\ batchLog'[g] = batchLog[g]
                   /\ tx'[g] = tx[g]
          /\ (tx'[g] # tx[g] /\ tx'[g] # EmptyTables)
                => /\ ~DependenciesMissing(g)
                   /\ gpc[g] \in {"batch", "items"}]_vars

\* the order generator is back at its check after a wait, with nothing
\* inserted, while the product generator has begun a batch
C15_Witness ==
    /\ gpc["order_generator"] = "loop"
    /\ batchLog["order_generator"] = <<>>
    /\ \E a \in access : a.by = "order_generator"
    /\ batchLog["product_generator"] # <<>>

\* C16: no generator is in the wait of 5 while it holds list_lock.
C16_WaitsWithoutLock ==
    \A g \in Gens : gpc[g] = "wait_sleep" => list_lock # g

GeneratedProducts ==
    {r.id : r \in RowsOfBatches("product_generator",
                                DOMAIN batchLog["product_generator"], "products")}

\* C17: whenever the product generator is about to insert the next product of
\* a batch or to commit the batch, and at any later time, the id of every
\* product it has inserted is in product_ids; the one id that may be missing
\* is that of the insert just made, while the thread is on its way to
\* the append (or was killed with the process on that way); and the product
\* generator touches product_ids only under list_lock.
C17_IdAppendedBeforeNextInsert ==
    /\ \A id \in GeneratedProducts :
          \/ id \in Range(product_ids)
          \/ /\ gpc["product_generator"] \in {"append", "killed"}
             /\ id = ord.new_product_id
    /\ \A a \in access :
          a.by = "product_generator" /\ a.list = "product_ids" => a.locked

\* the first product of a batch of two is in product_ids, the batch is open
\* and the second insert has not been made
C17_Witness ==
    /\ gpc["product_generator"] = "batch"
    /\ gi["product_generator"] = 1
    /\ CONFIG.products_per_interval = 2
    /\ batchLog["product_generator"][CurrentBatch("product_generator")].fate = "open"
    /\ \E id \in GeneratedProducts :
          /\ id \in Range(product_ids)
          /\ id \notin Ids(db, "products")

OpenBatch(g) ==
    /\ batchLog[g] # <<>>
    /\ batchLog[g][CurrentBatch(g)].fate = "open"

NewRows(table) ==
    Visible("order_generator")'[table] \ Visible("order_generator")[table]

Started(g) == gpc[g] # "not_started"

\* C20: a generator thread exists only after initial_setup has returned and
\* only when neither --setup-only nor --no-realtime was given; and a thread
\* that has not been started has read none of the lists and has no statement
\* in a transaction.
C20_GeneratorsAfterSetup ==
    /\ (\E g \in Gens : Started(g))
          => /\ pc \in {"start_order_thread", "running", "exited"}
             /\ ~CONFIG.setup_only
             /\ ~CONFIG.no_realtime
    /\ \A g \in Gens :
          ~Started(g) => /\ tx[g] = EmptyTables
                         /\ batchLog[g] = <<>>
                         /\ \A a \in access : a.by # g
    /\ \A a \in access : a.by \in Gens => ~a.alone

\* both generators are at work after the setup: they have read the lists and
\* the product generator has an insert in its transaction
C20_Witness ==
    /\ pc = "running"
    /\ tx["product_generator"] # EmptyTables
    /\ \A g \in Gens : \E a \in access : a.by = g

\* the product rows storage holds: committed, or in the open transaction of
\* one of the connections
StoredProducts ==
    Ids(db, "products") \cup UNION {Ids(tx[c], "products") : c \in Conns}

\* C25: every id in product_ids is the id of a product row that is committed
\* or in an open transaction; none is the id of a row that was rolled back.
C25_ListedProductsExist ==
    \A n \in DOMAIN product_ids :
        product_ids[n] # None => product_ids[n] \in StoredProducts

\* C26: no entry of a list of ids is the absent value None.
C26_NoAbsentValueInLists ==
    /\ None \notin Range(supplier_ids)
    /\ None \notin Range(employee_ids)
    /\ None \notin Range(customer_ids)
    /\ None \notin Range(product_ids)
    /\ None \notin Range(pet_ids)

\* C27: every committed order has a committed row of order_items.
C27_CommittedOrderHasItem ==
    \A o \in db.orders : ItemsOf(db, o.order_id) # {}

\* C29: once the product generator has started, the supplier list no longer
\* changes; and while that list is empty the product generator has begun no
\* batch, has inserted no row, holds no open transaction and has never touched
\* product_ids, whatever rows storage holds.
C29_NoProductWithoutSuppliers ==
    /\ [](Started("product_generator") /\ supplier_ids = <<>>
            => /\ batchLog["product_generator"] = <<>>
               /\ tx["product_generator"] = EmptyTables
               /\ gpc["product_generator"] \notin {"batch", "append", "sleep"}
               /\ ~\E a \in access : a.by = "product_generator" /\ a.list = "product_ids")
    /\ [][Started("product_generator") => supplier_ids' = supplier_ids]_vars

\* the product generator is in its wait with no supplier in the list while
\* storage holds a supplier, after the order generator has made its check
C29_Witness ==
    /\ gpc["product_generator"] = "wait_sleep"
    /\ supplier_ids = <<>>
    /\ db.suppliers # {}
    /\ CONFIG.no_initial_data
    /\ \E a \in access : a.by = "order_generator"

----------------------------------------------------------------------------
(* Properties of create_schema *)

ExecutedNames == {e[2] : e \in runs.executed}

\* neither run met an error other than ORA-00955
NoFaults == runs.faults = {} /\ runs.earlier = {}

\* C8: when create_schema is run a second time without --drop-existing and
\* storage fails no statement, the second run returns 0, every create it
\* executes is answered "already exists" and reported as a warning, and the
\* schema objects are the ones the first run left.
C8_SecondRunChangesNothing ==
    runs.run = 2 /\ spc = "done" /\ ~args.drop_existing /\ NoFaults =>
        /\ rc = 0
        /\ objects = runs.before
        /\ runs.warned = ExecutedNames

\* a second run that has gone through all the sequences, tables and indexes
C8_Witness ==
    /\ runs.run = 2 /\ spc = "done" /\ ~args.drop_existing /\ NoFaults
    /\ runs.warned = AllObjects

StatementFaults == {f \in runs.faults : f[1] # "connect"}

\* C9 as the spec states it: a run in which a drop or a create met an error
\* other than "already exists" or "does not exist" returns 1.
C9_EveryOtherErrorAborts ==
    spc = "done" /\ StatementFaults # {} => rc = 1

Aborting == {"create_sequences", "create_tables"}

\* C9 as amended: an error other than "already exists" of a create-sequence
\* or create-table statement stops the remaining statements and main returns
\* 1; the errors of the drops and of the create-index statements do not.
C9_OnlySequenceAndTableErrorsAbort ==
    spc = "done" =>
        /\ runs.aborted = {f \in StatementFaults : f[1] \in Aborting}
        /\ rc = (IF runs.aborted # {} \/ <<"connect", "connect">> \in runs.faults
                   THEN 1 ELSE 0)
        /\ runs.aborted # {} => runs.executed = runs.at_abort

\* a run that went on after a drop failed and was stopped by a create
C9_Witness ==
    /\ spc = "done"
    /\ rc = 1
    /\ runs.aborted # {}
    /\ \E f \in StatementFaults : f[1] \in {"drop_tables", "drop_sequences"}

\* C21: in a run with --dry-run no DROP and no CREATE is executed, nothing is
\* committed or rolled back, and the schema objects are those the run found,
\* whatever the other flags are.
C21_DryRunChangesNothing ==
    args.dry_run =>
        /\ runs.executed = {}
        /\ runs.commits = {}
        /\ ~runs.rolled_back
        /\ objects = runs.before

\* a dry run with --drop-existing on a schema that holds objects has gone
\* through its loops and returned 0
C21_Witness ==
    /\ args.dry_run
    /\ args.drop_existing
    /\ spc = "done"
    /\ rc = 0
    /\ objects # {}
    /\ objects # AllObjects

Issued(stage) == {e[2] : e \in {x \in runs.executed : x[1] = stage}}

IssuedNow(stage) == {e[2] : e \in {x \in runs'.executed \ runs.executed : x[1] = stage}}

\* C22: a CREATE TABLE is issued only after the CREATE TABLE of every other
\* table its foreign keys reference, a CREATE INDEX only after the CREATE
\* TABLE of every table, and a DROP TABLE only while no table that the
\* dropped table references has been dropped.
C22_DependencyOrder ==
    [][/\ \A t \in IssuedNow("create_tables") :
             References[t] \ {t} \subseteq Issued("create_tables")
       /\ IssuedNow("create_indexes") # {}
             => Issued("create_tables") = DOMAIN References
       /\ \A t \in IssuedNow("drop_tables") :
             (References[t] \ {t}) \cap Issued("drop_tables") = {}]_vars

\* a run with --drop-existing has dropped and created every table and has
\* created the indexes
C22_Witness ==
    /\ spc = "done"
    /\ rc = 0
    /\ Issued("drop_tables") = DOMAIN References
    /\ Issued("create_tables") = DOMAIN References
    /\ Issued("create_indexes") = Range(IndexOrder)

----------------------------------------------------------------------------
(* Properties of generate_data under fair scheduling *)

\* the thread is at a with list_lock whose block does not depend on how many
\* batches have been begun: the append, or the check that finds a list empty
WaitsForLock(g) ==
    \/ gpc[g] = "append"
    \/ gpc[g] = "loop" /\ DependenciesMissing(g)

Failed ==
    \/ setupFailed
    \/ pc = "exited"
    \/ \E g \in Gens : gpc[g] \in {"dead", "killed"}
    \/ \E g \in Gens : \E b \in DOMAIN batchLog[g] : batchLog[g][b].fate = "failed"

\* initial_setup has returned with suppliers and customers in the lists and
\* no product, and the threads are about to be started
StartsWithoutProducts ==
    /\ pc = "setup_returned"
    /\ ~CONFIG.setup_only /\ ~CONFIG.no_realtime
    /\ supplier_ids # <<>>
    /\ customer_ids # <<>>
    /\ product_ids = <<>>

\* C28: when the generators start with suppliers and customers in the lists
\* and no product, then, unless an operation on storage fails, a product id
\* is appended to product_ids at some time.
C28_ProductEventuallyAppended ==
    StartsWithoutProducts ~> (Failed \/ product_ids # <<>>)

----------------------------------------------------------------------------
(* Properties of row_count *)

RECURSIVE Flattened(_)
Flattened(seqs) == IF seqs = <<>> THEN <<>> ELSE Head(seqs) \o Flattened(Tail(seqs))

RECURSIVE Sum(_)
Sum(numbers) == IF numbers = <<>> THEN 0 ELSE Head(numbers) + Sum(Tail(numbers))

\* the answers of storage to the count of every table of the schemas the
\* reporter went through
CountAnswers ==
    Flattened([n \in DOMAIN report.schemas |->
                 IF report.storage.users[report.schemas[n]].fails THEN <<>>
                 ELSE report.storage.users[report.schemas[n]].counts])

Succeeded(count) == count >= 0

\* C23: the total of rows the reporter prints is the sum of the counts of the
\* tables whose count succeeded, the total of tables it prints is the number
\* of all tables it went through, those whose count failed too; the reporter
\* issues SELECT statements only and storage is left as it was.
C23_TotalsOfSucceededCounts ==
    [][/\ report'.summary.printed =>
             /\ report'.summary.total_rows
                   = Sum(SelectSeq(CountAnswers', Succeeded))
             /\ report'.summary.total_tables = Len(CountAnswers')
       /\ report'.issued \subseteq {"SELECT"}
       /\ report'.storage = report.storage
       /\ db' = db
       /\ objects' = objects]_vars

\* the summary is printed after two schemas with a table that could not be
\* counted and tables that hold rows
C23_Witness ==
    /\ report.summary.printed
    /\ Len(report.schemas) = 2
    /\ \E n \in DOMAIN CountAnswers : ~Succeeded(CountAnswers[n])
    /\ report.summary.total_rows > MaxRowCount
    /\ report.summary.total_tables > Len(SelectSeq(CountAnswers, Succeeded))

----------------------------------------------------------------------------
(* Properties of create_catalog_inventory *)

\* the rows of table t that a step inserts
LoaderInserted(t) == loader'.tx[t] \ loader.tx[t]

\* C30: every items row a step inserts names, by its inventory_id, an
\* inventory row that is there and has the item's catalog_id; every inventory
\* row a step inserts names a catalog row that is there; and no step inserts
\* an inventory row while catalog is empty, or an items row while catalog or
\* inventory is empty.
C30_RowsReferToExistingRows ==
    [][LET T == LoaderVisible(loader) IN
       /\ \A item \in LoaderInserted("items") :
             \E inv \in T.inventory :
                /\ inv.inventory_id = item.inventory_id
                /\ inv.catalog_id = item.catalog_id
                /\ inv.catalog_id \in T.catalog
       /\ \A inv \in LoaderInserted("inventory") : inv.catalog_id \in T.catalog
       /\ LoaderInserted("inventory") # {} => T.catalog # {}
       /\ LoaderInserted("items") # {} => T.catalog # {} /\ T.inventory # {}]_vars

\* a run that has committed, over two catalog rows and an inventory row, an
\* item it inserted itself
C30_Witness ==
    /\ loader.pc = "exited"
    /\ loader.status = 0
    /\ ~loader.args.dry_run
    /\ Cardinality(loader.db.catalog) >= 2
    /\ \E item \in loader.db.items : item.item_id = loader.nextId.items - 1
    /\ \E inv \in loader.db.inventory : inv.inventory_id = loader.nextId.inventory - 1

====
